---- MODULE Spec2Model ----
(***************************************************************************)
(* A model of the deterministic computation layer of the tutor agent:      *)
(*   cal                       src/tutor_agent/tools/calculator.py         *)
(*   physics_constants_lookup  src/tutor_agent/tools/formula.py            *)
(*   physics_calc              src/tutor_agent/tools/formula.py            *)
(*                                                                         *)
(* Every tool is a function of its arguments.  A state of the model is the *)
(* invocation (call) together with what it produced (ret): a returned     *)
(* Python value, or an exception that left the function.                   *)
(*                                                                         *)
(* Python values                                                           *)
(*   None        the empty tuple <<>>                                      *)
(*   a number    <<n, d, e>>, the rational (n/d) * 10^e in canonical form  *)
(*               (d > 0 coprime to n and to 10, n not a multiple of 10);   *)
(*               True and False are the numbers 1 and 0, as in Python      *)
(*   a string    a TLA+ string; a string that may be None is wrapped:      *)
(*               <<>> for None, <<s>> for the string s                     *)
(*   a dict      a record / function from the keys to their values         *)
(*   an f-string [fmt |-> the template, args |-> the substituted values]   *)
(***************************************************************************)
EXTENDS Integers, Sequences, FiniteSets, TLC

VARIABLES
    call, ret,          \* one tool invocation and what it produced
    threads, frames,    \* concurrent tool invocations and their local frames
    sessions, chat,     \* the session service and one chat request in flight
    state, log          \* one session state and the memory calls made on it

vars == <<call, ret, threads, frames, sessions, chat, state, log>>

toolVars == <<call, ret>>
threadVars == <<threads, frames>>
apiVars == <<sessions, chat>>
memoryVars == <<state, log>>

\* the parts of the state a specification does not use stay empty
NoTool == call = <<>> /\ ret = <<>>
NoThreads == threads = <<>> /\ frames = <<>>
NoApi == sessions = <<>> /\ chat = <<>>
NoMemory == state = <<>> /\ log = <<>>

(***************************************************************************)
(* Bounds of the explored inputs.                                          *)
(***************************************************************************)
\* numeric arguments range over the integers up to MaxVal
MaxVal == 2
\* the lists handed to cal have at most MaxLen elements
MaxLen == 3
\* the number of tool invocations running at the same time
NumCalls == 2
\* the number of chat requests a client sends
MaxRequests == 3
\* the number of memory calls made on one session state
MaxCalls == 4

(***************************************************************************)
(* Numbers.                                                                *)
(***************************************************************************)
NoneVal == <<>>

Abs(i) == IF i < 0 THEN -i ELSE i

RECURSIVE Gcd(_, _)
Gcd(a, b) == IF b = 0 THEN a ELSE Gcd(b, a % b)

RECURSIVE Pow10(_)
Pow10(k) == IF k = 0 THEN 1 ELSE 10 * Pow10(k - 1)

\* canonical form of (n/d) * 10^e, n # 0, d > 0, gcd(n, d) = 1
RECURSIVE Canon(_, _, _)
Canon(n, d, e) ==
    IF d % 2 = 0 THEN Canon(n * 5, d \div 2, e - 1)
    ELSE IF d % 5 = 0 THEN Canon(n * 2, d \div 5, e - 1)
    ELSE IF n % 10 = 0 THEN Canon(n \div 10, d, e + 1)
    ELSE <<n, d, e>>

Norm(n, d, e) ==
    IF n = 0 THEN <<0, 1, 0>>
    ELSE LET s == IF d < 0 THEN -1 ELSE 1
             g == Gcd(Abs(n), Abs(d))
         IN  Canon((s * n) \div g, (s * d) \div g, e)

IntNum(i) == Norm(i, 1, 0)
Zero == IntNum(0)
One == IntNum(1)

IsNumber(x) == Len(x) = 3
IsZero(x) == x[1] = 0

Neg(a) == <<-a[1], a[2], a[3]>>
Mul(a, b) == Norm(a[1] * b[1], a[2] * b[2], a[3] + b[3])
\* true division; the caller has excluded b = 0 (Python raises ZeroDivisionError)
Div(a, b) == Norm(a[1] * b[2], a[2] * b[1], a[3] - b[3])
Add(a, b) ==
    LET e == IF a[3] < b[3] THEN a[3] ELSE b[3]
    IN  Norm(a[1] * Pow10(a[3] - e) * b[2] + b[1] * Pow10(b[3] - e) * a[2],
             a[2] * b[2], e)
Sub(a, b) == Add(a, Neg(b))
Less(a, b) == Sub(a, b)[1] < 0
NumAbs(a) == <<Abs(a[1]), a[2], a[3]>>

\* Python truthiness of an argument that is None or a number
Truthy(x) == x # NoneVal /\ ~IsZero(x)

(***************************************************************************)
(* Floats.  cal converts every element with float() and computes with      *)
(* IEEE-754 doubles; physics_calc computes with the numbers it is handed,   *)
(* which are doubles whenever they are beyond the small integers.  A finite *)
(* double is kept as the exact rational; what is modelled of the format is  *)
(* its range and the loss of a term that is too small to change the sum: a  *)
(* result of magnitude 1.8e308 or more is infinity, one below 2.5e-324 is   *)
(* zero, infinity - infinity and infinity * 0 are NaN, and a term more than *)
(* 19 decimal orders below the other (2^-53 is about 1.1e-16) is absorbed.  *)
(* Rounding of the last bits of a result is not modelled.                   *)
(***************************************************************************)
Infinity(sign) == <<sign, 0, 0>>
NaN == <<1, 0, 1>>
IsFinite(x) == x[2] # 0
Sign(x) == IF x[1] < 0 THEN -1 ELSE 1

RECURSIVE Digits(_)
Digits(i) == IF i < 10 THEN 1 ELSE 1 + Digits(i \div 10)

\* the decimal order of a finite non-zero x: 10^(M-1) < |x| < 10^(M+1)
Magnitude(x) == x[3] + Digits(Abs(x[1])) - Digits(x[2])

\* |x| is beyond the largest double
Overflows(x) ==
    /\ ~IsZero(x)
    /\ LET M == Magnitude(x)
       IN  IF M >= 311 THEN TRUE
           ELSE IF M <= 307 THEN FALSE
           ELSE ~Less(NumAbs(x), Norm(18, 1, 307))

\* |x| is below half of the smallest positive double (4.9e-324)
Underflows(x) ==
    /\ ~IsZero(x)
    /\ LET M == Magnitude(x)
       IN  IF M <= -326 THEN TRUE
           ELSE IF M >= -322 THEN FALSE
           ELSE Less(NumAbs(x), Norm(25, 1, -325))

InRange(x) ==
    IF Overflows(x) THEN Infinity(Sign(x))
    ELSE IF Underflows(x) THEN <<0, 1, 0>>
    ELSE x

\* a * b
FMul(a, b) ==
    IF a = NaN \/ b = NaN THEN NaN
    ELSE IF ~IsFinite(a) \/ ~IsFinite(b)
    THEN IF (IsFinite(a) /\ IsZero(a)) \/ (IsFinite(b) /\ IsZero(b)) THEN NaN
         ELSE Infinity(Sign(a) * Sign(b))
    ELSE InRange(Mul(a, b))

\* the smaller term does not change the larger one
Absorbs(a, b) == ~IsZero(a) /\ ~IsZero(b) /\ Magnitude(a) - Magnitude(b) >= 19

\* a + b
FAdd(a, b) ==
    IF a = NaN \/ b = NaN THEN NaN
    ELSE IF ~IsFinite(a) /\ ~IsFinite(b) THEN (IF a = b THEN a ELSE NaN)
    ELSE IF ~IsFinite(a) THEN a
    ELSE IF ~IsFinite(b) THEN b
    ELSE IF IsZero(a) THEN b
    ELSE IF IsZero(b) THEN a
    ELSE IF Absorbs(a, b) THEN a
    ELSE IF Absorbs(b, a) THEN b
    ELSE InRange(Add(a, b))

\* a / b, the caller having excluded b = 0
FDiv(a, b) ==
    IF a = NaN \/ b = NaN THEN NaN
    ELSE IF ~IsFinite(a) /\ ~IsFinite(b) THEN NaN
    ELSE IF ~IsFinite(a) THEN Infinity(Sign(a) * Sign(b))
    ELSE IF ~IsFinite(b) THEN <<0, 1, 0>>
    ELSE InRange(Div(a, b))

\* a / n for a positive count n
FDivCount(a, n) == IF IsFinite(a) THEN Div(a, IntNum(n)) ELSE a

(***************************************************************************)
(* Outcomes of a call.                                                     *)
(***************************************************************************)
Float(v) == [py |-> "float", v |-> v]
Str(msg, args) == [py |-> "str", msg |-> msg, args |-> args]
Dict(d) == [py |-> "dict", d |-> d]
ReturnNone == [py |-> "None"]
Raise(exc) == [py |-> "raise", exc |-> exc]
FString(fmt, args) == [fmt |-> fmt, args |-> args]

(***************************************************************************)
(* str.lower() and str.replace() on the characters the inputs use.         *)
(***************************************************************************)
UpperChars == "ABCDEFGHIJKLMNOPQRSTUVWXYZ"
LowerChars == "abcdefghijklmnopqrstuvwxyz"

CharAt(s, i) == SubSeq(s, i, i)

LowerChar(c) ==
    IF \E i \in 1..Len(UpperChars) : CharAt(UpperChars, i) = c
    THEN CharAt(LowerChars, CHOOSE i \in 1..Len(UpperChars) : CharAt(UpperChars, i) = c)
    ELSE c

RECURSIVE lower(_)
lower(s) == IF Len(s) = 0 THEN "" ELSE LowerChar(CharAt(s, 1)) \o lower(SubSeq(s, 2, Len(s)))

\* s.replace(old, new) for a one-character old
RECURSIVE replace(_, _, _)
replace(s, old, new) ==
    IF Len(s) = 0 THEN ""
    ELSE (IF CharAt(s, 1) = old THEN new ELSE CharAt(s, 1))
         \o replace(SubSeq(s, 2, Len(s)), old, new)

\* Python's `sub in s` on strings
Contains(sub, s) ==
    \E i \in 1..(Len(s) - Len(sub) + 1) : SubSeq(s, i, i + Len(sub) - 1) = sub

(***************************************************************************)
(* cal(operation, numbers): calculator.py                                  *)
(***************************************************************************)
\* a sum that starts from the first element and then adds every element
RECURSIVE sum_counts_first_twice(_)
sum_counts_first_twice(numbers) ==
    IF Len(numbers) = 1 THEN FAdd(numbers[1], numbers[1])
    ELSE FAdd(sum_counts_first_twice(SubSeq(numbers, 1, Len(numbers) - 1)),
              numbers[Len(numbers)])

RECURSIVE sum(_)
sum(numbers) ==
    IF numbers = <<>> THEN Zero
    ELSE FAdd(sum(SubSeq(numbers, 1, Len(numbers) - 1)), numbers[Len(numbers)])

\* result = numbers[0]; for num in numbers[1:]: result -= num
RECURSIVE subtract(_)
subtract(numbers) ==
    IF Len(numbers) = 1 THEN numbers[1]
    ELSE Sub(subtract(SubSeq(numbers, 1, Len(numbers) - 1)), numbers[Len(numbers)])

\* result = 1; for num in numbers: result *= num
RECURSIVE multiply(_)
multiply(numbers) ==
    IF numbers = <<>> THEN One
    ELSE FMul(multiply(SubSeq(numbers, 1, Len(numbers) - 1)), numbers[Len(numbers)])

\* the divide loop from position i on, result being the quotient so far
RECURSIVE divide_loop(_, _, _)
divide_loop(numbers, i, result) ==
    IF i > Len(numbers) THEN Float(result)
    ELSE IF IsZero(numbers[i]) THEN Str("Error: Division by zero", <<>>)
    ELSE divide_loop(numbers, i + 1, Div(result, numbers[i]))

\* a divide loop that stops at a zero divisor and returns the quotient so far
RECURSIVE divide_loop_partial(_, _, _)
divide_loop_partial(numbers, i, result) ==
    IF i > Len(numbers) \/ IsZero(numbers[i]) THEN Float(result)
    ELSE divide_loop_partial(numbers, i + 1, Div(result, numbers[i]))

\* divide with the zero test applied to the first divisor only
divide_checks_first_divisor_only(numbers) ==
    IF Len(numbers) < 2 THEN Str("Error: Division requires at least 2 numbers", <<>>)
    ELSE IF IsZero(numbers[2]) THEN Str("Error: Division by zero", <<>>)
    ELSE divide_loop_partial(numbers, 3, Div(numbers[1], numbers[2]))

divide_branch(numbers) ==
    IF Len(numbers) < 2 THEN Str("Error: Division requires at least 2 numbers", <<>>)
    ELSE divide_loop(numbers, 2, numbers[1])

IsInteger(x) == x[2] = 1 /\ x[3] >= 0
IntOf(x) == x[1] * Pow10(x[3])

RECURSIVE IntPow(_, _)
IntPow(b, k) == IF k = 0 THEN One ELSE Mul(b, IntPow(b, k - 1))

\* float ** float: a zero base with a negative exponent raises
\* ZeroDivisionError; a fractional exponent is outside the explored inputs
\* and stays symbolic
float_pow(b, x) ==
    IF ~IsInteger(x) THEN Float(<<"pow", b, x>>)
    ELSE IF x[1] >= 0 THEN Float(IntPow(b, IntOf(x)))
    ELSE IF IsZero(b) THEN Raise("ZeroDivisionError")
    ELSE Float(Div(One, IntPow(b, IntOf(Neg(x)))))

\* a power branch that only asks for a base and an exponent and ignores the
\* numbers after them
power_branch_at_least_two(numbers) ==
    IF Len(numbers) < 2
    THEN Str("Error: Power operation requires exactly 2 numbers (base, exponent)", <<>>)
    ELSE float_pow(numbers[1], numbers[2])

power_branch(numbers) ==
    IF Len(numbers) # 2
    THEN Str("Error: Power operation requires exactly 2 numbers (base, exponent)", <<>>)
    ELSE float_pow(numbers[1], numbers[2])

average_branch(numbers) == Float(FDivCount(sum(numbers), Len(numbers)))

max(numbers) == CHOOSE x \in {numbers[i] : i \in 1..Len(numbers)} :
                    \A j \in 1..Len(numbers) : ~Less(x, numbers[j])
min(numbers) == CHOOSE x \in {numbers[i] : i \in 1..Len(numbers)} :
                    \A j \in 1..Len(numbers) : ~Less(numbers[j], x)

cal(operation, numbers) ==
    IF numbers = <<>> THEN Str("Error: No numbers provided", <<>>)
    ELSE IF \E i \in 1..Len(numbers) : ~IsNumber(numbers[i])
    THEN Str("Error: All arguments must be numbers", <<>>)
    ELSE LET op == lower(operation) IN
         CASE op = "add"      -> Float(sum(numbers))
           [] op = "subtract" -> Float(subtract(numbers))
           [] op = "multiply" -> Float(multiply(numbers))
           [] op = "divide"   -> divide_branch(numbers)
           [] op = "power"    -> power_branch(numbers)
           [] op = "average"  -> average_branch(numbers)
           [] op = "max"      -> Float(max(numbers))
           [] op = "min"      -> Float(min(numbers))
           [] OTHER           -> Str("Error: Unknown operation '{operation}'", <<op>>)

(***************************************************************************)
(* physics_constants_lookup(constant_name, category): formula.py           *)
(*                                                                         *)
(* The catalog is a dict literal; its insertion order is the order of the  *)
(* sequence.  A value is kept as the text of its float literal: the lookup *)
(* never computes with it.  Four characters of the symbol and units       *)
(* strings that the TLA+ lexer rejects are written as their code points    *)
(* (U+2074, U+210F, U+221E, U+2609); no lookup reads those fields.         *)
(***************************************************************************)
PHYSICS_CONSTANTS == <<
    [name |-> "speed_of_light", value |-> "299792458", units |-> "m/s", symbol |-> "c",
     description |-> "Speed of light in vacuum",
     category |-> "fundamental", uncertainty |-> "exact (defined)"],
    [name |-> "planck_constant", value |-> "6.62607015e-34", units |-> "J⋅s", symbol |-> "h",
     description |-> "Planck constant",
     category |-> "fundamental", uncertainty |-> "exact (defined)"],
    [name |-> "reduced_planck_constant", value |-> "1.054571817e-34", units |-> "J⋅s", symbol |-> "U+210F",
     description |-> "Reduced Planck constant (h/2π)",
     category |-> "fundamental", uncertainty |-> "exact (defined)"],
    [name |-> "elementary_charge", value |-> "1.602176634e-19", units |-> "C", symbol |-> "e",
     description |-> "Elementary charge",
     category |-> "fundamental", uncertainty |-> "exact (defined)"],
    [name |-> "gravitational_constant", value |-> "6.67430e-11", units |-> "m³/(kg⋅s²)", symbol |-> "G",
     description |-> "Gravitational constant",
     category |-> "fundamental", uncertainty |-> "2.2e-5"],
    [name |-> "vacuum_permeability", value |-> "1.25663706212e-6", units |-> "H/m", symbol |-> "μ₀",
     description |-> "Vacuum permeability",
     category |-> "electromagnetic", uncertainty |-> "1.9e-10"],
    [name |-> "vacuum_permittivity", value |-> "8.8541878128e-12", units |-> "F/m", symbol |-> "ε₀",
     description |-> "Vacuum permittivity",
     category |-> "electromagnetic", uncertainty |-> "1.3e-10"],
    [name |-> "coulomb_constant", value |-> "8.9875517923e9", units |-> "N⋅m²/C²", symbol |-> "k",
     description |-> "Coulomb constant (1/(4πε₀))",
     category |-> "electromagnetic", uncertainty |-> "exact (derived)"],
    [name |-> "avogadro_number", value |-> "6.02214076e23", units |-> "1/mol", symbol |-> "Nₐ",
     description |-> "Avogadro number",
     category |-> "atomic", uncertainty |-> "exact (defined)"],
    [name |-> "boltzmann_constant", value |-> "1.380649e-23", units |-> "J/K", symbol |-> "k_B",
     description |-> "Boltzmann constant",
     category |-> "atomic", uncertainty |-> "exact (defined)"],
    [name |-> "gas_constant", value |-> "8.314462618", units |-> "J/(mol⋅K)", symbol |-> "R",
     description |-> "Universal gas constant",
     category |-> "atomic", uncertainty |-> "exact (derived)"],
    [name |-> "electron_mass", value |-> "9.1093837015e-31", units |-> "kg", symbol |-> "mₑ",
     description |-> "Electron rest mass",
     category |-> "atomic", uncertainty |-> "3.0e-10"],
    [name |-> "proton_mass", value |-> "1.67262192369e-27", units |-> "kg", symbol |-> "mₚ",
     description |-> "Proton rest mass",
     category |-> "atomic", uncertainty |-> "3.1e-10"],
    [name |-> "neutron_mass", value |-> "1.67492749804e-27", units |-> "kg", symbol |-> "mₙ",
     description |-> "Neutron rest mass",
     category |-> "atomic", uncertainty |-> "9.5e-10"],
    [name |-> "atomic_mass_unit", value |-> "1.66053906660e-27", units |-> "kg", symbol |-> "u",
     description |-> "Atomic mass unit",
     category |-> "atomic", uncertainty |-> "5.0e-10"],
    [name |-> "standard_gravity", value |-> "9.80665", units |-> "m/s²", symbol |-> "g",
     description |-> "Standard acceleration due to gravity",
     category |-> "earth", uncertainty |-> "exact (defined)"],
    [name |-> "earth_mass", value |-> "5.972e24", units |-> "kg", symbol |-> "M⊕",
     description |-> "Earth mass",
     category |-> "earth", uncertainty |-> "4.4e-4"],
    [name |-> "earth_radius", value |-> "6.371e6", units |-> "m", symbol |-> "R⊕",
     description |-> "Earth mean radius",
     category |-> "earth", uncertainty |-> "varies"],
    [name |-> "solar_mass", value |-> "1.98847e30", units |-> "kg", symbol |-> "MU+2609",
     description |-> "Solar mass",
     category |-> "astronomical", uncertainty |-> "2.0e-4"],
    [name |-> "astronomical_unit", value |-> "1.495978707e11", units |-> "m", symbol |-> "au",
     description |-> "Astronomical unit",
     category |-> "astronomical", uncertainty |-> "exact (defined)"],
    [name |-> "stefan_boltzmann_constant", value |-> "5.670374419e-8", units |-> "W/(m²⋅KU+2074)", symbol |-> "σ",
     description |-> "Stefan-Boltzmann constant",
     category |-> "thermodynamic", uncertainty |-> "exact (derived)"],
    [name |-> "wien_displacement_constant", value |-> "2.897771955e-3", units |-> "m⋅K", symbol |-> "b",
     description |-> "Wien displacement law constant",
     category |-> "thermodynamic", uncertainty |-> "exact (derived)"],
    [name |-> "fine_structure_constant", value |-> "7.2973525693e-3", units |-> "dimensionless", symbol |-> "α",
     description |-> "Fine-structure constant",
     category |-> "nuclear", uncertainty |-> "1.5e-10"],
    [name |-> "rydberg_constant", value |-> "1.0973731568160e7", units |-> "1/m", symbol |-> "RU+221E",
     description |-> "Rydberg constant",
     category |-> "nuclear", uncertainty |-> "1.9e-12"]
>>

\* an argument that is None or a string: None and "" are falsy
Some(s) == <<s>>
StrTruthy(o) == o # NoneVal /\ o[1] # ""

\* a normalization that lower-cases and replaces spaces but leaves hyphens
normalize_name_keeps_hyphen(x) == replace(lower(x), " ", "_")

\* x.lower().replace(" ", "_").replace("-", "_")
normalize_name(x) == replace(replace(lower(x), " ", "_"), "-", "_")

ConstantNames == {PHYSICS_CONSTANTS[i].name : i \in 1..Len(PHYSICS_CONSTANTS)}
CatalogCategories == {PHYSICS_CONSTANTS[i].category : i \in 1..Len(PHYSICS_CONSTANTS)}

\* PHYSICS_CONSTANTS[key], key being a key of the catalog
ConstantData(key) ==
    PHYSICS_CONSTANTS[CHOOSE i \in 1..Len(PHYSICS_CONSTANTS) : PHYSICS_CONSTANTS[i].name = key]

\* the entries of one category, each reduced to name, symbol and description
OverviewEntries(cat) ==
    LET InCat(c) == c.category = cat
        sel == SelectSeq(PHYSICS_CONSTANTS, InCat)
    IN  [i \in 1..Len(sel) |-> [name |-> sel[i].name, symbol |-> sel[i].symbol,
                                description |-> sel[i].description]]

\* an overview that lists the whole catalog under every category
overview_branch_ungrouped ==
    Dict([overview |-> "Physics Constants Database",
          categories |-> [cat \in CatalogCategories |->
                             [i \in 1..Len(PHYSICS_CONSTANTS) |->
                                 [name |-> PHYSICS_CONSTANTS[i].name,
                                  symbol |-> PHYSICS_CONSTANTS[i].symbol,
                                  description |-> PHYSICS_CONSTANTS[i].description]]],
          total_constants |-> Len(PHYSICS_CONSTANTS),
          usage |-> "Use constant_name for specific constant or category for listing constants by type"])

overview_branch ==
    Dict([overview |-> "Physics Constants Database",
          categories |-> [cat \in CatalogCategories |-> OverviewEntries(cat)],
          total_constants |-> Len(PHYSICS_CONSTANTS),
          usage |-> "Use constant_name for specific constant or category for listing constants by type"])

\* list(set(...)): the elements of the set, each once, in the order the set
\* happens to iterate
RECURSIVE ListOfSet(_)
ListOfSet(S) ==
    IF S = {} THEN <<>>
    ELSE LET x == CHOOSE y \in S : TRUE IN <<x>> \o ListOfSet(S \ {x})

\* a category branch that compares the category as the caller spelled it
category_branch_case_sensitive(category_arg) ==
    LET category == category_arg
        InCat(c) == c.category = category
        category_constants == SelectSeq(PHYSICS_CONSTANTS, InCat)
    IN  IF category_constants # <<>>
        THEN Dict([category |-> category,
                   constants |-> category_constants,
                   count |-> Len(category_constants)])
        ELSE Dict([error |-> FString("Category '{category}' not found", <<category>>),
                   available_categories |-> ListOfSet(CatalogCategories)])

category_branch(category_arg) ==
    LET category == lower(category_arg)
        InCat(c) == c.category = category
        category_constants == SelectSeq(PHYSICS_CONSTANTS, InCat)
    IN  IF category_constants # <<>>
        THEN Dict([category |-> category,
                   constants |-> category_constants,
                   count |-> Len(category_constants)])
        ELSE Dict([error |-> FString("Category '{category}' not found", <<category>>),
                   available_categories |-> ListOfSet(CatalogCategories)])

\* the substring test of the partial matching
PartialMatches(constant_name) ==
    LET Hit(c) == \/ Contains(constant_name, c.name)
                  \/ Contains(constant_name, lower(c.description))
    IN  SelectSeq(PHYSICS_CONSTANTS, Hit)

\* the value record of an exact key match
exact_match(constant_name) ==
    LET const_data == ConstantData(constant_name)
    IN  Dict([constant |-> constant_name,
              value |-> const_data.value,
              units |-> const_data.units,
              symbol |-> const_data.symbol,
              description |-> const_data.description,
              category |-> const_data.category,
              uncertainty |-> const_data.uncertainty])

partial_match(constant_name, matches) ==
    Dict([partial_matches |-> matches,
          search_term |-> constant_name,
          message |-> "Multiple matches found. Please specify exact constant name."])

\* an UnknownConstant failure that lists every key of the catalog
unknown_constant_lists_all(constant_name) ==
    Dict([error |-> FString("Constant '{constant_name}' not found", <<constant_name>>),
          available_constants |-> [i \in 1..Len(PHYSICS_CONSTANTS) |-> PHYSICS_CONSTANTS[i].name],
          total_available |-> Len(PHYSICS_CONSTANTS),
          suggestion |-> "Use physics_constants_lookup() without parameters to see all categories"])

\* available_constants[:10] and the size of the catalog
unknown_constant(constant_name) ==
    Dict([error |-> FString("Constant '{constant_name}' not found", <<constant_name>>),
          available_constants |->
              [i \in 1..(IF Len(PHYSICS_CONSTANTS) < 10 THEN Len(PHYSICS_CONSTANTS) ELSE 10)
                  |-> PHYSICS_CONSTANTS[i].name],
          total_available |-> Len(PHYSICS_CONSTANTS),
          suggestion |-> "Use physics_constants_lookup() without parameters to see all categories"])

\* a name lookup that resolves a single partial match to that constant
name_branch_autoselect(constant_name_arg) ==
    LET constant_name == normalize_name(constant_name_arg)
        matches == PartialMatches(constant_name)
    IN  IF constant_name \in ConstantNames THEN exact_match(constant_name)
        ELSE IF Len(matches) = 1 THEN exact_match(matches[1].name)
        ELSE IF matches # <<>> THEN partial_match(constant_name, matches)
        ELSE unknown_constant(constant_name)

name_branch(constant_name_arg) ==
    LET constant_name == normalize_name(constant_name_arg)
        matches == PartialMatches(constant_name)
    IN  IF constant_name \in ConstantNames THEN exact_match(constant_name)
        ELSE IF matches # <<>> THEN partial_match(constant_name, matches)
        ELSE unknown_constant(constant_name)

\* a lookup in which the name is resolved before the category
lookup_name_takes_precedence(constant_name, category) ==
    IF ~StrTruthy(constant_name) /\ ~StrTruthy(category) THEN overview_branch
    ELSE IF StrTruthy(constant_name) THEN name_branch(constant_name[1])
    ELSE category_branch(category[1])

physics_constants_lookup(constant_name, category) ==
    IF ~StrTruthy(constant_name) /\ ~StrTruthy(category) THEN overview_branch
    ELSE IF StrTruthy(category) THEN category_branch(category[1])
    ELSE name_branch(constant_name[1])

(***************************************************************************)
(* physics_calc(law, **kwargs): formula.py                                 *)
(*                                                                         *)
(* kwargs is a function from the supplied keyword names to their values.   *)
(***************************************************************************)
PHYSICS_LAWS == <<
    [name |-> "newton_second_law",
     summary |-> "Newton's Second Law states that the acceleration of an object is directly proportional to the net force acting on it and inversely proportional to its mass.",
     formula |-> "F = ma",
     phenomena |-> "Explains how forces cause motion - heavier objects need more force to accelerate, lighter objects accelerate more easily with the same force",
     parameters |-> <<"mass (kg)", "acceleration (m/s²)">>,
     calculates |-> "Force (N)"],
    [name |-> "kinetic_energy",
     summary |-> "Kinetic energy is the energy possessed by an object due to its motion. It depends on both mass and velocity.",
     formula |-> "KE = ½mv²",
     phenomena |-> "Moving objects can do work - a moving car can push another car, a flying ball can break glass",
     parameters |-> <<"mass (kg)", "velocity (m/s)">>,
     calculates |-> "Kinetic Energy (J)"],
    [name |-> "potential_energy",
     summary |-> "Gravitational potential energy is the energy stored in an object due to its position in a gravitational field.",
     formula |-> "PE = mgh",
     phenomena |-> "Objects at height can fall and do work - water behind a dam, a rock on a cliff",
     parameters |-> <<"mass (kg)", "height (m)", "gravity (m/s², optional)">>,
     calculates |-> "Potential Energy (J)"],
    [name |-> "momentum",
     summary |-> "Momentum is the quantity of motion of a moving body, equal to the product of its mass and velocity.",
     formula |-> "p = mv",
     phenomena |-> "Heavy, fast-moving objects are harder to stop - why trucks take longer to brake than cars",
     parameters |-> <<"mass (kg)", "velocity (m/s)">>,
     calculates |-> "Momentum (kg⋅m/s)"],
    [name |-> "wave_equation",
     summary |-> "The wave equation relates the speed of a wave to its frequency and wavelength. For light waves, speed equals the speed of light.",
     formula |-> "v = fλ (or c = fλ for light)",
     phenomena |-> "Explains all wave phenomena - sound waves, light waves, radio waves, ocean waves",
     parameters |-> <<"frequency (Hz)", "wavelength (m)", "speed (m/s) - need 2 of 3">>,
     calculates |-> "Missing wave parameter"],
    [name |-> "ohms_law",
     summary |-> "Ohm's Law states that current through a conductor is directly proportional to voltage and inversely proportional to resistance.",
     formula |-> "V = IR, P = VI = I²R = V²/R",
     phenomena |-> "Fundamental principle of electrical circuits - how voltage, current, and resistance relate in all electrical devices",
     parameters |-> <<"voltage (V)", "current (A)", "resistance (Ω) - need 2 of 3">>,
     calculates |-> "Missing electrical parameter and power"],
    [name |-> "coulombs_law",
     summary |-> "Coulomb's Law describes the electrostatic force between two point charges, proportional to their charges and inversely proportional to distance squared.",
     formula |-> "F = k|q₁q₂|/r²",
     phenomena |-> "Explains electric forces - why clothes stick after dryer, lightning, how atoms bond",
     parameters |-> <<"charge1 (C)", "charge2 (C)", "distance (m)">>,
     calculates |-> "Electrostatic Force (N)"],
    [name |-> "ideal_gas_law",
     summary |-> "The Ideal Gas Law relates pressure, volume, temperature, and amount of gas for an ideal gas.",
     formula |-> "PV = nRT",
     phenomena |-> "Explains gas behavior - why balloons expand when heated, how pressure cookers work, atmospheric pressure changes",
     parameters |-> <<"pressure (Pa)", "volume (m³)", "moles (mol)", "temperature (K) - need 3 of 4">>,
     calculates |-> "Missing gas parameter"],
    [name |-> "snells_law",
     summary |-> "Snell's Law describes how light bends when passing from one medium to another with different refractive indices.",
     formula |-> "n₁sin(θ₁) = n₂sin(θ₂)",
     phenomena |-> "Explains refraction - why objects look bent in water, how lenses work, fiber optics, mirages",
     parameters |-> <<"n1 (refractive index)", "n2 (refractive index)", "theta1 (degrees)">>,
     calculates |-> "Refraction angle (degrees)"]
>>

LawNames == {PHYSICS_LAWS[i].name : i \in 1..Len(PHYSICS_LAWS)}

\* list(PHYSICS_LAWS.keys())
available_laws == [i \in 1..Len(PHYSICS_LAWS) |-> PHYSICS_LAWS[i].name]

\* PHYSICS_LAWS[law], law being a key of the table
LawData(law) == PHYSICS_LAWS[CHOOSE i \in 1..Len(PHYSICS_LAWS) : PHYSICS_LAWS[i].name = law]

\* PHYSICS_LAWS.get(law, {}).get(field, default)
LawInfoGet(law, field, default) ==
    IF law \in LawNames THEN LawData(law)[field] ELSE default

\* kwargs.get(key, default)
Get(kwargs, key, default) == IF key \in DOMAIN kwargs THEN kwargs[key] ELSE default

\* kwargs.get(key, kwargs.get(alias))
Get2(kwargs, key, alias) == Get(kwargs, key, Get(kwargs, alias, NoneVal))

Error(msg) == Dict([error |-> FString(msg, <<>>)])

\* the defaults written in the branches
Half == Norm(5, 1, -1)
DefaultGravity == Norm(981, 1, -2)
DefaultSpeed == Norm(3, 1, 8)
DefaultCoulombK == Norm(899, 1, 7)
DefaultGasR == Norm(8314, 1, -3)

\* an info test that looks at info_only only when it is the sole keyword
InfoMode_without_flag_test(kwargs) ==
    \/ DOMAIN kwargs = {}
    \/ (Cardinality(DOMAIN kwargs) = 1 /\ "info_only" \in DOMAIN kwargs)

\* if kwargs.get('info_only', False) or not kwargs
\*    or (len(kwargs) == 1 and 'info_only' in kwargs)
InfoMode(kwargs) ==
    \/ Truthy(Get(kwargs, "info_only", Zero))
    \/ DOMAIN kwargs = {}
    \/ (Cardinality(DOMAIN kwargs) = 1 /\ "info_only" \in DOMAIN kwargs)

info_branch(law) ==
    IF law \in LawNames
    THEN LET law_info == LawData(law)
         IN  Dict([law_info |-> law_info,
                   summary |-> law_info.summary,
                   formula |-> law_info.formula,
                   phenomena |-> law_info.phenomena,
                   required_parameters |-> law_info.parameters,
                   calculates |-> law_info.calculates])
    ELSE Dict([error |-> FString("Unknown law '{law}'. Available laws: {', '.join(available_laws)}",
                                 <<law, available_laws>>)])

newton_second_law(law, kwargs) ==
    LET m == Get2(kwargs, "mass", "m")
        a == Get2(kwargs, "acceleration", "a")
    IN  IF m = NoneVal \/ a = NoneVal
        THEN Error("Missing required parameters: mass (kg) and acceleration (m/s²)")
        ELSE LET force == Mul(m, a)
             IN  Dict([result |-> force,
                       units |-> "N (Newtons)",
                       formula |-> LawInfoGet(law, "formula", "F = ma"),
                       explanation |-> FString("Force = {m} kg × {a} m/s² = {force} N", <<m, a, force>>),
                       law_summary |-> LawInfoGet(law, "summary", ""),
                       phenomena |-> LawInfoGet(law, "phenomena", "")])

kinetic_energy(law, kwargs) ==
    LET m == Get2(kwargs, "mass", "m")
        v == Get2(kwargs, "velocity", "v")
    IN  IF m = NoneVal \/ v = NoneVal
        THEN Error("Missing required parameters: mass (kg) and velocity (m/s)")
        ELSE LET ke == Mul(Mul(Half, m), Mul(v, v))
             IN  Dict([result |-> ke,
                       units |-> "J (Joules)",
                       formula |-> LawInfoGet(law, "formula", "KE = ½mv²"),
                       explanation |-> FString("Kinetic Energy = ½ × {m} kg × ({v} m/s)² = {ke} J", <<m, v, ke>>),
                       law_summary |-> LawInfoGet(law, "summary", ""),
                       phenomena |-> LawInfoGet(law, "phenomena", "")])

potential_energy(law, kwargs) ==
    LET m == Get2(kwargs, "mass", "m")
        g == Get(kwargs, "gravity", Get(kwargs, "g", DefaultGravity))
        h == Get2(kwargs, "height", "h")
    IN  IF m = NoneVal \/ h = NoneVal
        THEN Error("Missing required parameters: mass (kg) and height (m)")
        ELSE LET pe == Mul(Mul(m, g), h)
             IN  Dict([result |-> pe,
                       units |-> "J (Joules)",
                       formula |-> LawInfoGet(law, "formula", "PE = mgh"),
                       explanation |-> FString("Potential Energy = {m} kg × {g} m/s² × {h} m = {pe} J", <<m, g, h, pe>>),
                       law_summary |-> LawInfoGet(law, "summary", ""),
                       phenomena |-> LawInfoGet(law, "phenomena", "")])

momentum(law, kwargs) ==
    LET m == Get2(kwargs, "mass", "m")
        v == Get2(kwargs, "velocity", "v")
    IN  IF m = NoneVal \/ v = NoneVal
        THEN Error("Missing required parameters: mass (kg) and velocity (m/s)")
        ELSE LET p == Mul(m, v)
             IN  Dict([result |-> p,
                       units |-> "kg⋅m/s",
                       formula |-> LawInfoGet(law, "formula", "p = mv"),
                       explanation |-> FString("Momentum = {m} kg × {v} m/s = {momentum} kg⋅m/s", <<m, v, p>>),
                       law_summary |-> LawInfoGet(law, "summary", ""),
                       phenomena |-> LawInfoGet(law, "phenomena", "")])

\* the branches of wave_equation on the three quantities read from kwargs
wave_solve(law, f, wavelength, c) ==
    IF Truthy(f) /\ Truthy(wavelength)
    THEN LET speed == FMul(f, wavelength)
         IN  Dict([result |-> speed,
                   units |-> "m/s",
                   formula |-> LawInfoGet(law, "formula", "v = fλ"),
                   explanation |-> FString("Wave speed = {f} Hz × {wavelength} m = {speed} m/s", <<f, wavelength, speed>>),
                   law_summary |-> LawInfoGet(law, "summary", ""),
                   phenomena |-> LawInfoGet(law, "phenomena", "")])
    ELSE IF Truthy(f) /\ Truthy(c)
    THEN LET wl == FDiv(c, f)
         IN  Dict([result |-> wl,
                   units |-> "m",
                   formula |-> "λ = c/f",
                   explanation |-> FString("Wavelength = {c} m/s ÷ {f} Hz = {wavelength} m", <<c, f, wl>>),
                   law_summary |-> LawInfoGet(law, "summary", ""),
                   phenomena |-> LawInfoGet(law, "phenomena", "")])
    ELSE IF Truthy(wavelength) /\ Truthy(c)
    THEN LET frequency == FDiv(c, wavelength)
         IN  Dict([result |-> frequency,
                   units |-> "Hz",
                   formula |-> "f = c/λ",
                   explanation |-> FString("Frequency = {c} m/s ÷ {wavelength} m = {frequency} Hz", <<c, wavelength, frequency>>),
                   law_summary |-> LawInfoGet(law, "summary", ""),
                   phenomena |-> LawInfoGet(law, "phenomena", "")])
    ELSE Error("Need at least 2 of: frequency, wavelength, speed")

\* a wave_equation that always takes the default speed, whatever is supplied
wave_equation_ignores_speed(law, kwargs) ==
    wave_solve(law, Get2(kwargs, "frequency", "f"),
               Get(kwargs, "wavelength", Get2(kwargs, "lambda", "l")),
               DefaultSpeed)

wave_equation(law, kwargs) ==
    wave_solve(law, Get2(kwargs, "frequency", "f"),
               Get(kwargs, "wavelength", Get2(kwargs, "lambda", "l")),
               Get(kwargs, "speed", Get(kwargs, "c", DefaultSpeed)))

ohms_law(law, kwargs) ==
    LET V == Get2(kwargs, "voltage", "V")
        I == Get2(kwargs, "current", "I")
        R == Get2(kwargs, "resistance", "R")
    IN  IF Truthy(V) /\ Truthy(I)
        THEN LET resistance == Div(V, I)
                 power == Mul(V, I)
             IN  Dict([result |-> [resistance |-> resistance, power |-> power],
                       units |-> [resistance |-> "Ω (Ohms)", power |-> "W (Watts)"],
                       formula |-> LawInfoGet(law, "formula", "V = IR, P = VI"),
                       explanation |-> FString("R = V/I = {V}V / {I}A = {resistance}Ω, P = {V}V × {I}A = {power}W",
                                               <<V, I, resistance, V, I, power>>),
                       law_summary |-> LawInfoGet(law, "summary", ""),
                       phenomena |-> LawInfoGet(law, "phenomena", "")])
        ELSE IF Truthy(V) /\ Truthy(R)
        THEN LET current == Div(V, R)
                 power == Div(Mul(V, V), R)
             IN  Dict([result |-> [current |-> current, power |-> power],
                       units |-> [current |-> "A (Amperes)", power |-> "W (Watts)"],
                       formula |-> "I = V/R, P = V²/R",
                       explanation |-> FString("I = {V}V / {R}Ω = {current}A, P = ({V}V)² / {R}Ω = {power}W",
                                               <<V, R, current, V, R, power>>)])
        ELSE IF Truthy(I) /\ Truthy(R)
        THEN LET voltage == Mul(I, R)
                 power == Mul(Mul(I, I), R)
             IN  Dict([result |-> [voltage |-> voltage, power |-> power],
                       units |-> [voltage |-> "V (Volts)", power |-> "W (Watts)"],
                       formula |-> "V = IR, P = I²R",
                       explanation |-> FString("V = {I}A × {R}Ω = {voltage}V, P = ({I}A)² × {R}Ω = {power}W",
                                               <<I, R, voltage, I, R, power>>)])
        ELSE Error("Need at least 2 of: voltage (V), current (I), resistance (R)")

coulombs_law(law, kwargs) ==
    LET k == Get(kwargs, "k", DefaultCoulombK)
        q1 == Get2(kwargs, "charge1", "q1")
        q2 == Get2(kwargs, "charge2", "q2")
        r == Get2(kwargs, "distance", "r")
    IN  IF q1 = NoneVal \/ q2 = NoneVal \/ r = NoneVal
        THEN Error("Missing required parameters: charge1 (C), charge2 (C), distance (m)")
        ELSE IF IsZero(Mul(r, r)) THEN Raise("ZeroDivisionError")
        ELSE LET force == Div(Mul(k, NumAbs(Mul(q1, q2))), Mul(r, r))
             IN  Dict([result |-> force,
                       units |-> "N (Newtons)",
                       formula |-> LawInfoGet(law, "formula", "F = k|q₁q₂|/r²"),
                       explanation |-> FString("Force = {k} × |{q1} × {q2}| C² / ({r} m)² = {force} N",
                                               <<k, q1, q2, r, force>>),
                       law_summary |-> LawInfoGet(law, "summary", ""),
                       phenomena |-> LawInfoGet(law, "phenomena", "")])

\* num / den, raising ZeroDivisionError on a zero denominator
GasQuotient(num, den, units, formula, explanation, args) ==
    IF IsZero(den) THEN Raise("ZeroDivisionError")
    ELSE Dict([result |-> Div(num, den),
               units |-> units,
               formula |-> formula,
               explanation |-> FString(explanation, Append(args, Div(num, den)))])

\* the chain of the ideal_gas_law branch, R being the gas constant in use
gas_solve(kwargs, R) ==
    LET P == Get2(kwargs, "pressure", "P")
        V == Get2(kwargs, "volume", "V")
        n == Get2(kwargs, "moles", "n")
        T == Get2(kwargs, "temperature", "T")
        known_vars == Cardinality({i \in 1..4 : <<P, V, n, T>>[i] # NoneVal})
    IN  IF known_vars < 3
        THEN Error("Need at least 3 of: pressure (Pa), volume (m³), moles (mol), temperature (K)")
        ELSE IF P = NoneVal
        THEN GasQuotient(Mul(Mul(n, R), T), V, "Pa (Pascals)", "P = nRT/V",
                         "Pressure = {n} mol × {R} J/(mol⋅K) × {T} K / {V} m³ = {pressure} Pa",
                         <<n, R, T, V>>)
        ELSE IF V = NoneVal
        THEN GasQuotient(Mul(Mul(n, R), T), P, "m³", "V = nRT/P",
                         "Volume = {n} mol × {R} J/(mol⋅K) × {T} K / {P} Pa = {volume} m³",
                         <<n, R, T, P>>)
        ELSE IF T = NoneVal
        THEN GasQuotient(Mul(P, V), Mul(n, R), "K (Kelvin)", "T = PV/(nR)",
                         "Temperature = {P} Pa × {V} m³ / ({n} mol × {R} J/(mol⋅K)) = {temperature} K",
                         <<P, V, n, R>>)
        ELSE IF n = NoneVal
        THEN GasQuotient(Mul(P, V), Mul(R, T), "mol", "n = PV/(RT)",
                         "Moles = {P} Pa × {V} m³ / ({R} J/(mol⋅K) × {T} K) = {moles} mol",
                         <<P, V, R, T>>)
        \* no branch of the chain is taken: the function ends without a return
        ELSE ReturnNone

\* an ideal_gas_law that never reads the R argument
ideal_gas_law_fixed_R(law, kwargs) == gas_solve(kwargs, DefaultGasR)

\* R = kwargs.get('R', 8.314)
ideal_gas_law(law, kwargs) == gas_solve(kwargs, Get(kwargs, "R", DefaultGasR))

\* math.sin(math.radians(theta)) on the explored incident angles: exact at
\* 0, 30 and 90 degrees, seven decimals at 60
Angles == {IntNum(0), IntNum(30), IntNum(60), IntNum(90)}

SinDeg(theta) ==
    CASE theta = IntNum(0)  -> Zero
      [] theta = IntNum(30) -> Half
      [] theta = IntNum(60) -> Norm(8660254, 1, -7)
      [] theta = IntNum(90) -> One

\* math.degrees(math.asin(x)) for |x| <= 1: the angle of the table when x is
\* one of its sines, otherwise the term itself
AsinDeg(x) ==
    IF \E a \in Angles : SinDeg(a) = NumAbs(x)
    THEN LET a == CHOOSE b \in Angles : SinDeg(b) = NumAbs(x)
         IN  IF x[1] < 0 THEN Neg(a) ELSE a
    ELSE <<"degrees(asin(x))", x>>

snells_law(law, kwargs) ==
    LET n1 == Get2(kwargs, "n1", "index1")
        n2 == Get2(kwargs, "n2", "index2")
        theta1 == Get2(kwargs, "theta1", "angle1")
    IN  IF Truthy(n1) /\ Truthy(n2) /\ Truthy(theta1)
        THEN LET sin_theta2 == Div(Mul(n1, SinDeg(theta1)), n2)
             IN  IF Less(One, NumAbs(sin_theta2))
                 THEN Error("Total internal reflection occurs - no refracted ray")
                 ELSE LET theta2_deg == AsinDeg(sin_theta2)
                      IN  Dict([result |-> theta2_deg,
                                units |-> "degrees",
                                formula |-> LawInfoGet(law, "formula", "n₁sin(θ₁) = n₂sin(θ₂)"),
                                explanation |-> FString("θ₂ = arcsin({n1}×sin({theta1}°)/{n2}) = {theta2_deg:.2f}°",
                                                        <<n1, theta1, n2, theta2_deg>>),
                                law_summary |-> LawInfoGet(law, "summary", ""),
                                phenomena |-> LawInfoGet(law, "phenomena", "")])
        ELSE Error("Need refractive indices n1, n2 and incident angle theta1")

unknown_law(law) ==
    Dict([error |-> FString("Unknown law '{law}'. Available laws: {', '.join(available_laws)}",
                            <<law, available_laws>>),
          available_laws |-> [name \in LawNames |-> LawData(name).summary]])

\* the if/elif chain inside the try block
compute_branch(law, kwargs) ==
    CASE law = "newton_second_law" \/ law = "force" -> newton_second_law(law, kwargs)
      [] law = "kinetic_energy"   -> kinetic_energy(law, kwargs)
      [] law = "potential_energy" -> potential_energy(law, kwargs)
      [] law = "momentum"         -> momentum(law, kwargs)
      [] law = "wave_equation"    -> wave_equation(law, kwargs)
      [] law = "ohms_law"         -> ohms_law(law, kwargs)
      [] law = "coulombs_law"     -> coulombs_law(law, kwargs)
      [] law = "ideal_gas_law"    -> ideal_gas_law(law, kwargs)
      [] law = "snells_law"       -> snells_law(law, kwargs)
      [] OTHER                    -> unknown_law(law)

\* a physics_calc without the except clause: the exception leaves the function
except_handler_missing(outcome) == outcome

\* except Exception as e: return {"error": f"Calculation error: {str(e)}"}
except_handler(outcome) ==
    IF outcome.py = "raise"
    THEN Dict([error |-> FString("Calculation error: {str(e)}", <<outcome.exc>>)])
    ELSE outcome

physics_calc(law_arg, kwargs) ==
    LET law == normalize_name(law_arg)
    IN  IF InfoMode(kwargs) THEN info_branch(law)
        ELSE except_handler(compute_branch(law, kwargs))

(***************************************************************************)
(* The explored invocations.                                               *)
(***************************************************************************)
\* a list element float() cannot convert
NotANumber == <<"abc">>

CalOperations == {"add", "subtract", "multiply", "divide", "power", "average",
                  "max", "min", "ADD", "Divide", "sqrt"}

\* the list elements: -1 (a negative exponent, a negative term), 0 and the
\* positive integers up to MaxVal, and an element that is not a number
CalValues == {IntNum(i) : i \in -1..MaxVal} \cup {NotANumber}

CalLists == UNION {[1..n -> CalValues] : n \in 0..MaxLen}

CalInvocations ==
    {[tool |-> "cal", operation |-> operation, numbers |-> numbers] :
        operation \in CalOperations, numbers \in CalLists}

\* the name and category arguments of the explored lookups
LookupNames ==
    {NoneVal, Some(""), Some("speed_of_light"), Some("Speed of Light"),
     Some("Speed-Of-Light"), Some("SPEED_OF_LIGHT"), Some("electron_mass"),
     Some("planck"), Some("wien"), Some("mass"), Some("rest mass"),
     Some("Speed of light in vacuum"), Some("light"), Some("Avogadro"),
     Some("nonexistent_constant"), Some("fundamental"),
     Some("PLANCK"), Some("Stefan-Boltzmann"), Some("stefan boltzmann"),
     Some("Mass Unit"), Some("Nonexistent Constant"), Some("nonexistent-constant")}

LookupCategories ==
    {NoneVal, Some(""), Some("fundamental"), Some("Atomic"), Some("nuclear"),
     Some("earth"), Some("chemistry"), Some("speed_of_light")}

LookupInvocations ==
    {[tool |-> "physics_constants_lookup", constant_name |-> n, category |-> c] :
        n \in LookupNames, c \in LookupCategories}

\* the keyword dicts over a set of names, each name absent or given a value
Kwargs(keys, vals) == UNION {[S -> vals] : S \in SUBSET keys}

\* a keyword dict as it is, with info_only=False and with info_only=True
WithInfoOnly(kwargs) ==
    {kwargs} \cup {[k \in DOMAIN kwargs \cup {"info_only"} |->
                        IF k = "info_only" THEN flag ELSE kwargs[k]] : flag \in {Zero, One}}

PhysValues == {IntNum(i) : i \in 0..MaxVal}

\* the refractive indices and incident angles handed to snells_law
SnellValues == {IntNum(0), IntNum(1), Norm(3, 2, 0)} \cup Angles

SnellKwargs ==
    {kw \in Kwargs({"n1", "n2", "theta1"}, SnellValues) :
        "theta1" \in DOMAIN kw => kw["theta1"] \in Angles}

\* the law names as the caller spells them, each with the keyword dicts tried
CalcInputs ==
    {<<"newton_second_law", Kwargs({"mass", "acceleration", "a"}, PhysValues)>>,
     <<"Newton Second Law", Kwargs({"mass", "acceleration"}, PhysValues)>>,
     <<"force", Kwargs({"mass", "acceleration"}, PhysValues)>>,
     <<"kinetic_energy", Kwargs({"mass", "velocity", "v"}, PhysValues)>>,
     <<"potential_energy", Kwargs({"mass", "height", "gravity"}, PhysValues)>>,
     <<"momentum", Kwargs({"mass", "velocity", "m"}, PhysValues)>>,
     <<"wave_equation", Kwargs({"frequency", "wavelength", "speed", "f"}, PhysValues)>>,
     <<"ohms_law", Kwargs({"voltage", "current", "resistance", "V"}, PhysValues)>>,
     <<"Ohms-Law", Kwargs({"voltage", "current", "resistance"}, PhysValues)>>,
     <<"coulombs_law", Kwargs({"charge1", "charge2", "distance", "k"}, PhysValues)>>,
     <<"ideal_gas_law",
       Kwargs({"pressure", "volume", "moles", "temperature", "R"}, PhysValues)>>,
     <<"snells_law", SnellKwargs>>,
     <<"gravity", Kwargs({"mass"}, PhysValues)>>}

CalcInvocations ==
    UNION {{[tool |-> "physics_calc", law |-> in[1], kwargs |-> kw] :
                kw \in UNION {WithInfoOnly(k) : k \in in[2]}} : in \in CalcInputs}

Invocations == CalInvocations \cup LookupInvocations \cup CalcInvocations

\* the call has been made and has not returned yet
Pending == [py |-> "pending"]

Init ==
    /\ call \in Invocations
    /\ ret = Pending
    /\ NoThreads /\ NoApi /\ NoMemory

CallCal ==
    /\ call.tool = "cal"
    /\ ret = Pending
    /\ ret' = cal(call.operation, call.numbers)
    /\ UNCHANGED <<call, threadVars, apiVars, memoryVars>>

CallLookup ==
    /\ call.tool = "physics_constants_lookup"
    /\ ret = Pending
    /\ ret' = physics_constants_lookup(call.constant_name, call.category)
    /\ UNCHANGED <<call, threadVars, apiVars, memoryVars>>

CallPhysicsCalc ==
    /\ call.tool = "physics_calc"
    /\ ret = Pending
    /\ ret' = physics_calc(call.law, call.kwargs)
    /\ UNCHANGED <<call, threadVars, apiVars, memoryVars>>

Next == CallCal \/ CallLookup \/ CallPhysicsCalc

Spec == Init /\ [][Next]_vars

(***************************************************************************)
(* Calls that reach the ends of the float range: add and multiply on       *)
(* lists with elements near the largest double next to small ones, and     *)
(* wave_equation on very large and very small quantities.                  *)
(***************************************************************************)
FloatRangeValues ==
    {Norm(1, 1, 308), Norm(-1, 1, 308), IntNum(10), Norm(1, 1, -1), Zero}

FloatRangeLists == UNION {[1..n -> FloatRangeValues] : n \in 1..MaxLen}

FloatRangeInvocations ==
    {[tool |-> "cal", operation |-> operation, numbers |-> numbers] :
        operation \in {"add", "multiply"}, numbers \in FloatRangeLists}

\* wave_equation on quantities whose product leaves the float range
WaveRangeValues == {Norm(1, 1, 200), Norm(1, 1, -200), IntNum(2), Norm(5, 1, -1)}

WaveRangeInvocations ==
    {[tool |-> "physics_calc", law |-> "wave_equation", kwargs |-> kw] :
        kw \in Kwargs({"frequency", "wavelength", "speed"}, WaveRangeValues)}

InitFloatRange ==
    /\ call \in FloatRangeInvocations \cup WaveRangeInvocations
    /\ ret = Pending
    /\ NoThreads /\ NoApi /\ NoMemory

NextFloatRange == CallCal \/ CallPhysicsCalc

SpecFloatRange == InitFloatRange /\ [][NextFloatRange]_vars

(***************************************************************************)
(* Concurrent invocations.  The system instruction lets the agent call its  *)
(* tools in any order and the server is asynchronous, so several           *)
(* invocations can be in progress at once.  Every invocation runs in a      *)
(* frame of its own: the tables are dict literals inside the function       *)
(* bodies and every other name the functions assign is a local.  A thread   *)
(* enters its function (the locals are created), runs the body (the         *)
(* multiply loop takes one step per element) and returns.                   *)
(***************************************************************************)
Threads == 1..NumCalls

ConcurrentInvocations ==
    {[tool |-> "cal", operation |-> "multiply", numbers |-> <<IntNum(2), IntNum(3)>>],
     [tool |-> "cal", operation |-> "multiply", numbers |-> <<IntNum(3), IntNum(0), IntNum(2)>>],
     [tool |-> "cal", operation |-> "add", numbers |-> <<IntNum(1), IntNum(2)>>],
     [tool |-> "physics_constants_lookup", constant_name |-> Some("planck"), category |-> NoneVal],
     [tool |-> "physics_constants_lookup", constant_name |-> NoneVal, category |-> Some("atomic")],
     [tool |-> "physics_calc", law |-> "kinetic_energy",
      kwargs |-> [k \in {"mass", "velocity"} |-> IntNum(2)]],
     [tool |-> "physics_calc", law |-> "gravity", kwargs |-> <<>>]}

\* the result of the invocation run on its own
Alone(inv) ==
    CASE inv.tool = "cal" -> cal(inv.operation, inv.numbers)
      [] inv.tool = "physics_constants_lookup" ->
             physics_constants_lookup(inv.constant_name, inv.category)
      [] inv.tool = "physics_calc" -> physics_calc(inv.law, inv.kwargs)

\* the locals of a call that has just been entered
NewFrame(inv) ==
    [constants |-> IF inv.tool = "physics_constants_lookup" THEN PHYSICS_CONSTANTS ELSE <<>>,
     laws      |-> IF inv.tool = "physics_calc" THEN PHYSICS_LAWS ELSE <<>>,
     numbers   |-> IF inv.tool = "cal" THEN inv.numbers ELSE <<>>,
     result    |-> IF inv.tool = "cal" THEN One ELSE <<>>,
     i         |-> 1]

\* one frame for all the calls: the locals as if they were module globals
SharedFrame(t) == 1

\* the frame a thread's call runs in: a frame of its own
FrameOf(t) == t

InMultiplyLoop(t) ==
    /\ threads[t].inv.tool = "cal"
    /\ lower(threads[t].inv.operation) = "multiply"
    /\ frames[FrameOf(t)].i <= Len(frames[FrameOf(t)].numbers)

\* what the body returns, read from the locals of the frame
BodyResult(inv, frame) ==
    CASE inv.tool = "cal" ->
             IF lower(inv.operation) = "multiply" THEN Float(frame.result)
             ELSE cal(inv.operation, frame.numbers)
      [] inv.tool = "physics_constants_lookup" ->
             IF frame.constants = PHYSICS_CONSTANTS
             THEN physics_constants_lookup(inv.constant_name, inv.category)
             ELSE Raise("NameError")
      [] inv.tool = "physics_calc" ->
             IF frame.laws = PHYSICS_LAWS
             THEN physics_calc(inv.law, inv.kwargs)
             ELSE Raise("NameError")

InitConcurrent ==
    /\ threads \in [Threads -> {[inv |-> inv, pc |-> "ready", ret |-> Pending] :
                                   inv \in ConcurrentInvocations}]
    /\ frames = [f \in Threads |-> <<>>]
    /\ NoTool /\ NoApi /\ NoMemory

Enter(t) ==
    /\ threads[t].pc = "ready"
    /\ frames' = [frames EXCEPT ![FrameOf(t)] = NewFrame(threads[t].inv)]
    /\ threads' = [threads EXCEPT ![t].pc = "body"]
    /\ UNCHANGED <<toolVars, apiVars, memoryVars>>

\* result *= num
LoopStep(t) ==
    /\ threads[t].pc = "body"
    /\ InMultiplyLoop(t)
    /\ LET frame == frames[FrameOf(t)]
       IN  frames' = [frames EXCEPT ![FrameOf(t)] =
                         [frame EXCEPT !.result = IF IsNumber(frame.result)
                                                  THEN FMul(frame.result, frame.numbers[frame.i])
                                                  ELSE frame.result,
                                       !.i = frame.i + 1]]
    /\ UNCHANGED <<threads, toolVars, apiVars, memoryVars>>

Finish(t) ==
    /\ threads[t].pc = "body"
    /\ ~InMultiplyLoop(t)
    /\ threads' = [threads EXCEPT ![t].pc = "done",
                                  ![t].ret = BodyResult(threads[t].inv, frames[FrameOf(t)])]
    /\ UNCHANGED <<frames, toolVars, apiVars, memoryVars>>

NextConcurrent == \E t \in Threads : Enter(t) \/ LoopStep(t) \/ Finish(t)

SpecConcurrent == InitConcurrent /\ [][NextConcurrent]_vars

(***************************************************************************)
(* POST /api/chat: api.py.  The session service is ADK's                    *)
(* InMemorySessionService: get_session returns None for an id it does not   *)
(* hold, create_session stores a new session under a fresh id.  A client    *)
(* sends one request after the other; the handler validates the message,    *)
(* gets or creates the session, runs the agent in it and answers.  The      *)
(* session service or the agent can fail at their step.                     *)
(***************************************************************************)
Whitespace == {" ", "\t", "\n"}

\* str.strip()
RECURSIVE StripLeft(_)
StripLeft(s) ==
    IF Len(s) > 0 /\ CharAt(s, 1) \in Whitespace THEN StripLeft(SubSeq(s, 2, Len(s))) ELSE s
RECURSIVE StripRight(_)
StripRight(s) ==
    IF Len(s) > 0 /\ CharAt(s, Len(s)) \in Whitespace
    THEN StripRight(SubSeq(s, 1, Len(s) - 1)) ELSE s

\* a strip that removes nothing
strip_nothing(s) == s

strip(s) == StripRight(StripLeft(s))

\* the id of the n-th session the service creates
NewSessionId(n) == "session-" \o ToString(n)

ChatMessages == {"", " ", " \t\n", "2+2?", " hello "}

\* the session ids a client can send: none, the empty string, an id the
\* service never issued, or an id an earlier response returned
ClientSessionIds == {NoneVal, Some(""), Some("no-such-session")} \cup {Some(id) : id \in sessions.issued}

\* a handler that creates a session whatever id the request names
session_always_created(session_id, ids) == NoneVal

\* the session the request continues, None when one has to be created:
\* if session_id: session = get_session(...); if not session: create
existing_session(session_id, ids) ==
    IF StrTruthy(session_id) /\ session_id[1] \in ids THEN session_id ELSE NoneVal

InitChat ==
    /\ sessions = [ids |-> {}, issued |-> {}, runs |-> [id \in {} |-> 0]]
    /\ chat = [pc |-> "idle", requests |-> 0]
    /\ NoTool /\ NoThreads /\ NoMemory

Receive ==
    /\ chat.pc \in {"idle", "done"}
    /\ chat.requests < MaxRequests
    /\ \E message \in ChatMessages : \E session_id \in ClientSessionIds :
           chat' = [pc |-> "validate", requests |-> chat.requests + 1,
                    message |-> message, session_id |-> session_id,
                    session |-> NoneVal, looked_up |-> FALSE, created |-> 0,
                    ran |-> FALSE, status |-> 0, out |-> NoneVal,
                    before |-> sessions]
    /\ UNCHANGED <<sessions, toolVars, threadVars, memoryVars>>

\* if not request.message.strip(): raise HTTPException(400)
Validate ==
    /\ chat.pc = "validate"
    /\ chat' = IF strip(chat.message) = ""
               THEN [chat EXCEPT !.pc = "done", !.status = 400]
               ELSE [chat EXCEPT !.pc = "session"]
    /\ UNCHANGED <<sessions, toolVars, threadVars, memoryVars>>

GetOrCreateSession ==
    /\ chat.pc = "session"
    /\ LET found == existing_session(chat.session_id, sessions.ids)
           id == NewSessionId(Cardinality(sessions.ids) + 1)
       IN  IF found # NoneVal
           THEN /\ chat' = [chat EXCEPT !.pc = "run", !.session = found,
                                        !.looked_up = TRUE]
                /\ UNCHANGED sessions
           ELSE /\ chat' = [chat EXCEPT !.pc = "run", !.session = Some(id),
                                        !.looked_up = StrTruthy(chat.session_id),
                                        !.created = chat.created + 1]
                /\ sessions' = [sessions EXCEPT
                                   !.ids = @ \cup {id},
                                   !.runs = [x \in DOMAIN @ \cup {id} |->
                                                IF x = id THEN 0 ELSE @[x]]]
    /\ UNCHANGED <<toolVars, threadVars, memoryVars>>

\* except Exception: raise SessionError -> 503
SessionFails ==
    /\ chat.pc = "session"
    /\ chat' = [chat EXCEPT !.pc = "done", !.status = 503,
                            !.looked_up = StrTruthy(chat.session_id)]
    /\ UNCHANGED <<sessions, toolVars, threadVars, memoryVars>>

\* runner.run_async(session_id=session.id) ends with a response
RunAgent ==
    /\ chat.pc = "run"
    /\ chat' = [chat EXCEPT !.pc = "done", !.status = 200, !.ran = TRUE,
                            !.out = chat.session]
    /\ sessions' = [sessions EXCEPT !.runs[chat.session[1]] = @ + 1,
                                    !.issued = @ \cup {chat.session[1]}]
    /\ UNCHANGED <<toolVars, threadVars, memoryVars>>

\* the agent raises, or ends without a response: 500
AgentFails ==
    /\ chat.pc = "run"
    /\ chat' = [chat EXCEPT !.pc = "done", !.status = 500, !.ran = TRUE]
    /\ UNCHANGED <<sessions, toolVars, threadVars, memoryVars>>

NextChat ==
    Receive \/ Validate \/ GetOrCreateSession \/ SessionFails \/ RunAgent \/ AgentFails

SpecChat == InitChat /\ [][NextChat]_vars

(***************************************************************************)
(* The session memory: memory.py.  The state is a mapping from keys to      *)
(* JSON-like values; the tools and the initialisation callback read and     *)
(* write it as a dict.  A value is tagged with its Python type.             *)
(***************************************************************************)
SYSTEM_TIME == "_time"
SESSION_INITIALIZED == "_session_initialized"
SESSION_KEY == "session"
SESSION_START_TIME == "session_start_time"
SESSION_END_TIME == "session_end_time"
START_TIME == "start_time"
END_TIME == "end_time"

StrValue(s) == [t |-> "str", v |-> s]
ListValue(l) == [t |-> "list", v |-> l]
DictValue(d) == [t |-> "dict", v |-> d]
TrueValue == [t |-> "bool", v |-> TRUE]
NoneValue == [t |-> "none", v |-> <<>>]
EmptyDict == <<>>

\* bool(x)
TruthyValue(x) ==
    CASE x.t = "none" -> FALSE
      [] x.t = "bool" -> x.v
      [] x.t = "str"  -> x.v # ""
      [] x.t = "list" -> Len(x.v) > 0
      [] x.t = "dict" -> DOMAIN x.v # {}

\* d[key] = value
SetItem(d, key, value) == [k \in DOMAIN d \cup {key} |-> IF k = key THEN value ELSE d[k]]
\* d.update(source)
update(d, source) ==
    [k \in DOMAIN d \cup DOMAIN source |-> IF k \in DOMAIN source THEN source[k] ELSE d[k]]

Elements(l) == {l[i] : i \in 1..Len(l)}
\* list.remove(value), value being in the list: the first occurrence goes
remove(l, value) ==
    LET first == CHOOSE i \in 1..Len(l) : l[i] = value /\ \A j \in 1..(i - 1) : l[j] # value
    IN  SubSeq(l, 1, first - 1) \o SubSeq(l, first + 1, Len(l))

\* what a call leaves behind: the state, and whether it raised
Done(s) == [state |-> s, raised |-> FALSE]
Raised(s) == [state |-> s, raised |-> TRUE]

\* `value in x` for a value x of the state; a bool or None is not iterable
IsContainer(x) == x.t \in {"list", "str", "dict"}
In(value, x) ==
    CASE x.t = "list" -> value \in Elements(x.v)
      [] x.t = "str"  -> Contains(value, x.v)
      [] x.t = "dict" -> value \in DOMAIN x.v

\* an append without the membership test
append_always(l, value) == Append(l, value)

\* if value not in mem_dict[key]: mem_dict[key].append(value)
append_if_absent(l, value) == IF value \notin Elements(l) THEN Append(l, value) ELSE l

memorize_list(key, value, mem_dict) ==
    LET created == IF key \notin DOMAIN mem_dict
                   THEN SetItem(mem_dict, key, ListValue(<<>>)) ELSE mem_dict
        held == created[key]
    IN  CASE held.t = "list" ->
                 Done(SetItem(created, key, ListValue(append_if_absent(held.v, value))))
          [] ~IsContainer(held) -> Raised(created)
          [] OTHER -> IF In(value, held) THEN Done(created) ELSE Raised(created)

memorize(key, value, mem_dict) == Done(SetItem(mem_dict, key, StrValue(value)))

forget(key, value, mem_dict) ==
    IF key \notin DOMAIN mem_dict THEN Raised(mem_dict)
    ELSE LET emptied == IF mem_dict[key].t = "none"
                        THEN SetItem(mem_dict, key, ListValue(<<>>)) ELSE mem_dict
             held == emptied[key]
         IN  CASE held.t = "list" ->
                      IF value \in Elements(held.v)
                      THEN Done(SetItem(emptied, key, ListValue(remove(held.v, value))))
                      ELSE Done(emptied)
               [] ~IsContainer(held) -> Raised(emptied)
               [] OTHER -> IF In(value, held) THEN Raised(emptied) ELSE Done(emptied)

\* a test that never finds the state initialised
never_initialized(target) == FALSE

\* SESSION_INITIALIZED in target
already_initialized(target) == SESSION_INITIALIZED \in DOMAIN target

_set_initial_states(source, target, now) ==
    LET stamped == IF SYSTEM_TIME \notin DOMAIN target
                   THEN SetItem(target, SYSTEM_TIME, StrValue(now)) ELSE target
        merged == update(SetItem(stamped, SESSION_INITIALIZED, TrueValue), source)
        session == IF SESSION_KEY \in DOMAIN source
                   THEN source[SESSION_KEY] ELSE DictValue(EmptyDict)
    IN  IF already_initialized(stamped) THEN Done(stamped)
        ELSE IF ~TruthyValue(session) THEN Done(merged)
        ELSE IF session.t # "dict" \/ START_TIME \notin DOMAIN session.v THEN Raised(merged)
        ELSE LET started == SetItem(merged, SESSION_START_TIME, session.v[START_TIME])
             IN  IF END_TIME \notin DOMAIN session.v THEN Raised(started)
                 ELSE Done(SetItem(started, SESSION_END_TIME, session.v[END_TIME]))

\* the keys and values the tools are called with
MemoryKeys == {"topics", "level", SYSTEM_TIME}
MemoryValues == {"a", "b"}

\* the "state" object of the profile file handed to the callback
Sources ==
    {EmptyDict,
     [topics |-> ListValue(<<"b">>), level |-> StrValue("a")],
     [topics |-> ListValue(<<"a", "a">>),
      session |-> DictValue([start_time |-> StrValue("9:00"), end_time |-> StrValue("10:00")])],
     [topics |-> NoneValue, session |-> DictValue([start_time |-> StrValue("9:00")])]}

ListOps == {"memorize_list", "forget"}
HoldsList(s, key) == key \in DOMAIN s /\ s[key].t = "list"

\* str(datetime.now()): the calls are made at different times
Now == "time-" \o ToString(log.calls)

\* the record kept of the calls: how many, the last one with the state it
\* found, and for every key holding a list the list it held when the calls
\* of memorize_list and forget on it began and the last such call naming
\* each value
Record(op, key, value, source, outcome) ==
    LET after == outcome.state
        continues(k) ==
            HoldsList(state, k) /\ (state[k] = after[k] \/ (op \in ListOps /\ key = k))
        listKeys == {k \in DOMAIN after : after[k].t = "list"}
    IN  [calls |-> log.calls + 1,
         inits |-> log.inits + (IF op = "_set_initial_states" THEN 1 ELSE 0),
         last  |-> [op |-> op, key |-> key, value |-> value, source |-> source,
                    raised |-> outcome.raised, before |-> state],
         base  |-> [k \in listKeys |->
                       IF continues(k) THEN log.base[k]
                       ELSE IF op \in ListOps THEN <<>> ELSE after[k].v],
         named |-> [k \in listKeys |->
                       LET old == IF continues(k) THEN log.named[k] ELSE EmptyDict
                       IN  IF op \in ListOps /\ key = k THEN SetItem(old, value, op) ELSE old]]

InitMemory ==
    /\ state = EmptyDict
    /\ log = [calls |-> 0, inits |-> 0, last |-> <<>>, base |-> EmptyDict, named |-> EmptyDict]
    /\ NoTool /\ NoThreads /\ NoApi

\* _load_precreated_itinerary: _set_initial_states(data["state"], callback_context.state)
SetInitialStates ==
    /\ log.calls < MaxCalls
    /\ \E source \in Sources :
          LET outcome == _set_initial_states(source, state, Now)
          IN  /\ state' = outcome.state
              /\ log' = Record("_set_initial_states", "", "", source, outcome)
    /\ UNCHANGED <<toolVars, threadVars, apiVars>>

Memorize ==
    /\ log.calls < MaxCalls
    /\ \E key \in MemoryKeys : \E value \in MemoryValues :
          LET outcome == memorize(key, value, state)
          IN  /\ state' = outcome.state
              /\ log' = Record("memorize", key, value, EmptyDict, outcome)
    /\ UNCHANGED <<toolVars, threadVars, apiVars>>

MemorizeList ==
    /\ log.calls < MaxCalls
    /\ \E key \in MemoryKeys : \E value \in MemoryValues :
          LET outcome == memorize_list(key, value, state)
          IN  /\ state' = outcome.state
              /\ log' = Record("memorize_list", key, value, EmptyDict, outcome)
    /\ UNCHANGED <<toolVars, threadVars, apiVars>>

Forget ==
    /\ log.calls < MaxCalls
    /\ \E key \in MemoryKeys : \E value \in MemoryValues :
          LET outcome == forget(key, value, state)
          IN  /\ state' = outcome.state
              /\ log' = Record("forget", key, value, EmptyDict, outcome)
    /\ UNCHANGED <<toolVars, threadVars, apiVars>>

NextMemory == SetInitialStates \/ Memorize \/ MemorizeList \/ Forget

SpecMemory == InitMemory /\ [][NextMemory]_vars

(***************************************************************************)
(* Properties.                                                             *)
(***************************************************************************)
Returned == ret # Pending

CalCall == call.tool = "cal"
LookupCall == call.tool = "physics_constants_lookup"
CalcCall == call.tool = "physics_calc"

\* the dict returned has the key
Has(key) == ret.py = "dict" /\ key \in DOMAIN ret.d
\* the dict returned is the failure with this message
ErrorIs(msg) == Has("error") /\ ret.d.error.fmt = msg

\* physics_calc was called for the law and went on to compute
Computes(law) ==
    CalcCall /\ normalize_name(call.law) = law /\ ~InfoMode(call.kwargs)
\* the quantity was supplied, under its name or its alias
Supplied(key, alias) == key \in DOMAIN call.kwargs \/ alias \in DOMAIN call.kwargs
Arg(key, alias) == Get2(call.kwargs, key, alias)
HowMany(flags) == Cardinality({i \in 1..Len(flags) : flags[i]})

MissingNeed2Ohm == "Need at least 2 of: voltage (V), current (I), resistance (R)"
MissingNeed2Wave == "Need at least 2 of: frequency, wavelength, speed"
MissingNeed3Gas == "Need at least 3 of: pressure (Pa), volume (m³), moles (mol), temperature (K)"
MissingSnell == "Need refractive indices n1, n2 and incident angle theta1"
TotalInternalReflection == "Total internal reflection occurs - no refracted ray"
CalculationError == "Calculation error: {str(e)}"

\* C1: in compute mode (at least one parameter, info_only not set) physics_calc
\* returns exactly one of a success payload (a dict with 'result') and a
\* structured failure (a dict with 'error'), never both and never neither.
C1_ExactlyOneOfResultOrError ==
    (CalcCall /\ Returned /\ DOMAIN call.kwargs # {} /\ "info_only" \notin DOMAIN call.kwargs)
        => /\ ret.py = "dict"
           /\ ("result" \in DOMAIN ret.d) # ("error" \in DOMAIN ret.d)

\* C2: for every operation name and every non-empty list of numbers cal ends in
\* a returned number or a returned error, never in an exception.
C2_CalNeverFaults ==
    (CalCall /\ Returned /\ call.numbers # <<>>
        /\ \A i \in 1..Len(call.numbers) : IsNumber(call.numbers[i]))
        => ret.py \in {"float", "str"}

\* C3: no exception leaves physics_calc, and a numeric failure inside a law's
\* computation (coulombs_law with distance 0, ideal_gas_law solving for the
\* pressure at volume 0) comes back as the CalculationError failure carrying
\* the message of the exception.
C3_FailuresCaught ==
    (CalcCall /\ Returned)
        => /\ ret.py # "raise"
           /\ (/\ Computes("coulombs_law")
               /\ Supplied("charge1", "q1") /\ Supplied("charge2", "q2")
               /\ Supplied("distance", "r") /\ IsZero(Arg("distance", "r")))
                  => (ErrorIs(CalculationError) /\ ret.d.error.args = <<"ZeroDivisionError">>
                      /\ ~Has("result"))
           /\ (/\ Computes("ideal_gas_law")
               /\ ~Supplied("pressure", "P") /\ Supplied("volume", "V")
               /\ Supplied("moles", "n") /\ Supplied("temperature", "T")
               /\ IsZero(Arg("volume", "V")))
                  => (ErrorIs(CalculationError) /\ ret.d.error.args = <<"ZeroDivisionError">>
                      /\ ~Has("result"))

C3_Witness ==
    /\ Computes("coulombs_law") /\ Returned
    /\ Supplied("charge1", "q1") /\ Supplied("charge2", "q2")
    /\ Supplied("distance", "r") /\ IsZero(Arg("distance", "r"))
    /\ ~IsZero(Arg("charge1", "q1"))
    /\ ErrorIs(CalculationError)

\* numbers[0] / numbers[1] / ... / numbers[n-1], no divisor being zero
RECURSIVE LeftFoldQuotient(_)
LeftFoldQuotient(numbers) ==
    IF Len(numbers) = 1 THEN numbers[1]
    ELSE Div(LeftFoldQuotient(SubSeq(numbers, 1, Len(numbers) - 1)), numbers[Len(numbers)])

DivideCall ==
    /\ CalCall /\ Returned /\ lower(call.operation) = "divide"
    /\ Len(call.numbers) >= 2
    /\ \A i \in 1..Len(call.numbers) : IsNumber(call.numbers[i])

\* C4: cal('divide', numbers) with at least 2 numbers fails with DivisionByZero
\* whenever an element after the first is zero, whatever its position, and
\* returns no quotient then; with no zero divisor it returns the left-fold
\* quotient; a zero dividend is not an error.
C4_DivideByZeroAnywhere ==
    DivideCall
        => IF \E i \in 2..Len(call.numbers) : IsZero(call.numbers[i])
           THEN ret = Str("Error: Division by zero", <<>>)
           ELSE ret = Float(LeftFoldQuotient(call.numbers))

C4_Witness ==
    /\ DivideCall
    /\ Len(call.numbers) = 3
    /\ IsZero(call.numbers[1]) /\ ~IsZero(call.numbers[2]) /\ IsZero(call.numbers[3])
    /\ ret = Str("Error: Division by zero", <<>>)

BothGiven == LookupCall /\ StrTruthy(call.constant_name) /\ StrTruthy(call.category)

\* C5 as stated: with both a name and a category the lookup resolves the name
\* and ignores the category, so the result is that of the name alone.
C5_NameTakesPrecedence ==
    (BothGiven /\ Returned)
        => ret = physics_constants_lookup(call.constant_name, NoneVal)

\* C5 as amended: with both a non-empty name and a non-empty category the
\* lookup resolves the category and ignores the name, so the result is that of
\* the same call with the category alone.
C5_CategoryTakesPrecedence ==
    (BothGiven /\ Returned)
        => /\ ret = physics_constants_lookup(NoneVal, call.category)
           /\ ~Has("constant") /\ ~Has("partial_matches")
           /\ (Has("category") \/ Has("available_categories"))

C5_Witness ==
    /\ BothGiven /\ Returned
    /\ normalize_name(call.constant_name[1]) = "speed_of_light"
    /\ Has("category") /\ ret.d.category = "atomic"

NameQuery == LookupCall /\ StrTruthy(call.constant_name) /\ ~StrTruthy(call.category)
Query == normalize_name(call.constant_name[1])
\* the constants the query matches by substring, in the key or the description
SubstringHits(q) ==
    {i \in 1..Len(PHYSICS_CONSTANTS) :
        \/ Contains(q, PHYSICS_CONSTANTS[i].name)
        \/ Contains(q, lower(PHYSICS_CONSTANTS[i].description))}

\* C6: a name query that matches no key exactly and at least one constant by
\* substring returns the PartialMatch result listing the matches, never a
\* value record, even for a single match; a value record is returned only for
\* an exact key match, and an exact key match never returns partial_matches.
C6_PartialMatchNeverAutoSelected ==
    /\ (NameQuery /\ Returned /\ Query \notin ConstantNames /\ SubstringHits(Query) # {})
          => /\ Has("partial_matches") /\ Len(ret.d.partial_matches) = Cardinality(SubstringHits(Query))
             /\ ~Has("value") /\ ~Has("constant")
    /\ (LookupCall /\ Returned /\ (Has("value") \/ Has("constant")))
          => /\ StrTruthy(call.constant_name)
             /\ Query \in ConstantNames /\ ret.d.constant = Query
    /\ (NameQuery /\ Returned /\ Query \in ConstantNames)
          => Has("value") /\ ~Has("partial_matches")

C6_Witness ==
    /\ NameQuery /\ Returned
    /\ Query \notin ConstantNames /\ Cardinality(SubstringHits(Query)) = 1
    /\ Has("partial_matches") /\ Len(ret.d.partial_matches) = 1

\* the 'result' dict of the call has the field with this value
ResultField(key, value) ==
    Has("result") /\ key \in DOMAIN ret.d.result /\ ret.d.result[key] = value

OhmSupplied ==
    <<Supplied("voltage", "V"), Supplied("current", "I"), Supplied("resistance", "R")>>

\* C7: for ohms_law, whenever two of voltage, current and resistance are
\* supplied, zero values included, the result holds the third quantity with
\* V = I*R and the power by the formula of the supplied pair (a quotient being
\* asked for only where its divisor is not zero); the 'need at least 2'
\* failure is returned only when fewer than two of the three are supplied.
C7_OhmsAnyTwoSupplied ==
    (Computes("ohms_law") /\ Returned)
        => LET V == Arg("voltage", "V")
               I == Arg("current", "I")
               R == Arg("resistance", "R")
           IN  /\ ErrorIs(MissingNeed2Ohm) => HowMany(OhmSupplied) < 2
               /\ (OhmSupplied = <<TRUE, TRUE, FALSE>> /\ ~IsZero(I))
                     => /\ ResultField("resistance", Div(V, I))
                        /\ ResultField("power", Mul(V, I))
               /\ (OhmSupplied = <<TRUE, FALSE, TRUE>> /\ ~IsZero(R))
                     => /\ ResultField("current", Div(V, R))
                        /\ ResultField("power", Div(Mul(V, V), R))
               /\ OhmSupplied = <<FALSE, TRUE, TRUE>>
                     => /\ ResultField("voltage", Mul(I, R))
                        /\ ResultField("power", Mul(Mul(I, I), R))

GasSupplied ==
    <<Supplied("pressure", "P"), Supplied("volume", "V"),
      Supplied("moles", "n"), Supplied("temperature", "T")>>

\* C8 as stated: for ideal_gas_law fewer than 3 of the four quantities fail
\* with InsufficientParameters and exactly 3 return the missing quantity.
C8_ThreeSuppliedGivesQuantity ==
    (Computes("ideal_gas_law") /\ Returned)
        => /\ HowMany(GasSupplied) < 3 => ErrorIs(MissingNeed3Gas)
           /\ HowMany(GasSupplied) = 3 => Has("result")

\* the divisor of the formula that solves PV = nRT for the missing quantity
GasDivisor(P, V, n, T, R) ==
    CASE P = NoneVal -> V
      [] V = NoneVal -> P
      [] T = NoneVal -> Mul(n, R)
      [] n = NoneVal -> Mul(R, T)

GasUnits(P, V, n, T) ==
    CASE P = NoneVal -> "Pa (Pascals)"
      [] V = NoneVal -> "m³"
      [] T = NoneVal -> "K (Kelvin)"
      [] n = NoneVal -> "mol"

\* C8 as amended: fewer than 3 of the four quantities fail with
\* InsufficientParameters; exactly 3 return the one missing quantity x, in its
\* unit, with PV = nRT once x is put in its place (temperature omitted gives
\* PV/(nR)), R being the R argument or 8.314, when the divisor of the solving
\* formula is not zero, and fail with CalculationError when it is zero.
C8_ThreeSuppliedUnlessZeroDivisor ==
    (Computes("ideal_gas_law") /\ Returned)
        => /\ HowMany(GasSupplied) < 3 => ErrorIs(MissingNeed3Gas)
           /\ HowMany(GasSupplied) = 3
                 => LET P == Arg("pressure", "P")
                        V == Arg("volume", "V")
                        n == Arg("moles", "n")
                        T == Arg("temperature", "T")
                        R == Get(call.kwargs, "R", DefaultGasR)
                        Put(q) == IF q = NoneVal THEN ret.d.result ELSE q
                    IN  IF IsZero(GasDivisor(P, V, n, T, R))
                        THEN ErrorIs(CalculationError) /\ ~Has("result")
                        ELSE /\ Has("result") /\ ~Has("error")
                             /\ Mul(Put(P), Put(V)) = Mul(Mul(Put(n), R), Put(T))
                             /\ ret.d.units = GasUnits(P, V, n, T)
                             /\ T = NoneVal => ret.d.result = Div(Mul(P, V), Mul(n, R))

C8_Witness ==
    /\ Computes("ideal_gas_law") /\ Returned
    /\ GasSupplied = <<TRUE, TRUE, TRUE, FALSE>>
    /\ "R" \in DOMAIN call.kwargs /\ call.kwargs["R"] = IntNum(2)
    /\ Has("result") /\ ret.d.result = One /\ ret.d.units = "K (Kelvin)"

WaveLength == Get(call.kwargs, "wavelength", Get2(call.kwargs, "lambda", "l"))
WaveLengthSupplied == Supplied("wavelength", "lambda") \/ "l" \in DOMAIN call.kwargs
WaveSpeed == Get(call.kwargs, "speed", Get(call.kwargs, "c", DefaultSpeed))

\* C9: for wave_equation two known quantities give the third (speed = f * w,
\* wavelength = speed / f, frequency = speed / w, a quotient being asked for
\* only where its divisor is not zero), the speed defaulting to that of light
\* when omitted; a call supplying only the speed fails with the
\* insufficient-parameters error; a supplied value of zero counts as known.
C9_WaveZeroCountsAsKnown ==
    (Computes("wave_equation") /\ Returned)
        => LET f == Arg("frequency", "f")
               fKnown == Supplied("frequency", "f")
           IN  /\ (fKnown /\ WaveLengthSupplied)
                     => /\ Has("result") /\ ret.d.result = Mul(f, WaveLength)
                        /\ ret.d.units = "m/s"
               /\ (fKnown /\ ~WaveLengthSupplied /\ ~IsZero(f))
                     => /\ Has("result") /\ ret.d.result = Div(WaveSpeed, f)
                        /\ ret.d.units = "m"
               /\ (~fKnown /\ WaveLengthSupplied /\ ~IsZero(WaveLength))
                     => /\ Has("result") /\ ret.d.result = Div(WaveSpeed, WaveLength)
                        /\ ret.d.units = "Hz"
               /\ (~fKnown /\ ~WaveLengthSupplied) => ErrorIs(MissingNeed2Wave)

\* C10: for snells_law with n1, n2 and theta1 supplied the call fails with
\* TotalInternalReflection exactly when |n1*sin(theta1)/n2| > 1, a failure
\* distinct from CalculationError and from the missing-parameter error; when
\* the magnitude is at most 1 the refracted angle is returned in degrees.
C10_SnellTotalInternalReflection ==
    (/\ Computes("snells_law") /\ Returned
     /\ Supplied("n1", "index1") /\ Supplied("n2", "index2") /\ Supplied("theta1", "angle1")
     /\ ~IsZero(Arg("n2", "index2")))
        => LET magnitude == NumAbs(Div(Mul(Arg("n1", "index1"), SinDeg(Arg("theta1", "angle1"))),
                                       Arg("n2", "index2")))
           IN  /\ ErrorIs(TotalInternalReflection) <=> Less(One, magnitude)
               /\ TotalInternalReflection \notin {CalculationError, MissingSnell}
               /\ ~Less(One, magnitude) => (Has("result") /\ ret.d.units = "degrees")

\* the laws with a single result and, for each, the parameters it requires
\* as <<name, alias>>
SingleResultLaws ==
    [newton_second_law |-> {<<"mass", "m">>, <<"acceleration", "a">>},
     kinetic_energy    |-> {<<"mass", "m">>, <<"velocity", "v">>},
     potential_energy  |-> {<<"mass", "m">>, <<"height", "h">>},
     momentum          |-> {<<"mass", "m">>, <<"velocity", "v">>},
     coulombs_law      |-> {<<"charge1", "q1">>, <<"charge2", "q2">>, <<"distance", "r">>}]

MissingParametersPrefix == "Missing required parameters: "
\* the dict returned is a MissingParameters failure
MissingParameters ==
    /\ Has("error")
    /\ Len(ret.d.error.fmt) >= Len(MissingParametersPrefix)
    /\ SubSeq(ret.d.error.fmt, 1, Len(MissingParametersPrefix)) = MissingParametersPrefix
\* the failure message names the parameter
Names(param) == Contains(param, ret.d.error.fmt)

\* C11: for newton_second_law, kinetic_energy, potential_energy, momentum and
\* coulombs_law, a call in compute mode that lacks a required parameter fails
\* with MissingParameters and the failure names exactly the absent parameters,
\* not the supplied ones; a call that supplies every required parameter, zero
\* included, never fails with MissingParameters.
C11_MissingParametersNamesTheAbsent ==
    \A law \in DOMAIN SingleResultLaws :
        (Computes(law) /\ Returned) =>
            LET required == SingleResultLaws[law]
                absent == {p \in required : ~Supplied(p[1], p[2])}
            IN  IF absent # {}
                THEN /\ MissingParameters
                     /\ \A p \in required : Names(p[1]) <=> p \in absent
                ELSE ~MissingParameters

UnknownLawMessage == "Unknown law '{law}'. Available laws: {', '.join(available_laws)}"
\* the law name, once normalized, is not a key of PHYSICS_LAWS
UnregisteredLaw == CalcCall /\ normalize_name(call.law) \notin LawNames
\* the failure carries the valid law names: joined into its message, or as
\* the keys of 'available_laws'
CarriesLawNames ==
    /\ Has("error")
    /\ \/ /\ Len(ret.d.error.args) = 2
          /\ {ret.d.error.args[2][i] : i \in 1..Len(ret.d.error.args[2])} = LawNames
       \/ /\ Has("available_laws")
          /\ DOMAIN ret.d.available_laws = LawNames
\* the failure carries the one-line summary of every valid law
CarriesLawSummaries ==
    /\ Has("available_laws")
    /\ DOMAIN ret.d.available_laws = LawNames
    /\ \A name \in LawNames : ret.d.available_laws[name] = LawData(name).summary

\* C12: physics_calc called with a law name that is not a registered law
\* fails with UnknownLaw and the result carries the list of valid law names,
\* in info mode and in compute mode alike; in info mode it also carries the
\* one-line summaries of the valid laws.
C12_UnknownLawListsValidLaws ==
    (UnregisteredLaw /\ Returned) =>
        /\ ErrorIs(UnknownLawMessage)
        /\ CarriesLawNames
        /\ InfoMode(call.kwargs) => CarriesLawSummaries

\* the law name, once normalized, is a key of PHYSICS_LAWS
RegisteredLaw == CalcCall /\ normalize_name(call.law) \in LawNames
\* info_only was passed and is true
InfoOnlySet == "info_only" \in DOMAIN call.kwargs /\ Truthy(call.kwargs["info_only"])
\* the parameters supplied apart from info_only
OtherParameters == DOMAIN call.kwargs \ {"info_only"}
\* the result is the metadata of the law the call names, and nothing else
MetadataOnly ==
    LET law_info == LawData(normalize_name(call.law))
    IN  /\ ret.py = "dict"
        /\ DOMAIN ret.d = {"law_info", "summary", "formula", "phenomena",
                           "required_parameters", "calculates"}
        /\ ret.d.law_info = law_info
        /\ ret.d.summary = law_info.summary
        /\ ret.d.formula = law_info.formula
        /\ ret.d.phenomena = law_info.phenomena
        /\ ret.d.required_parameters = law_info.parameters
        /\ ret.d.calculates = law_info.calculates

\* C13: for a registered law physics_calc returns the law's metadata only
\* (summary, formula, phenomena, required parameters, calculates) and computes
\* nothing whenever info_only is true, numeric parameters supplied or not, or
\* no other parameter is supplied; it goes on to compute only when info_only
\* is absent or false and at least one other parameter is supplied.
C13_InfoModeReturnsMetadataOnly ==
    (RegisteredLaw /\ Returned) =>
        IF InfoOnlySet \/ OtherParameters = {}
        THEN MetadataOnly
        ELSE ~Has("law_info") /\ (Has("result") \/ Has("error") \/ ret.py = "None")

\* info_only=True together with numeric parameters came back as metadata
C13_Witness ==
    /\ RegisteredLaw /\ Returned
    /\ InfoOnlySet
    /\ \E k \in OtherParameters : IsNumber(call.kwargs[k])
    /\ MetadataOnly

\* C14: every successful numeric result of physics_calc, in every law and
\* every solve direction (the three pairs of ohms_law, the four targets of
\* ideal_gas_law and the three of wave_equation included), carries the units,
\* the formula, a textual explanation and the law's summary and phenomena text.
C14_ResultCarriesLawContext ==
    (RegisteredLaw /\ Returned /\ Has("result")) =>
        LET law_info == LawData(normalize_name(call.law))
        IN  /\ {"units", "formula", "explanation", "law_summary", "phenomena"}
                   \subseteq DOMAIN ret.d
            /\ ret.d.law_summary = law_info.summary
            /\ ret.d.phenomena = law_info.phenomena

\* the operation names cal dispatches on
ValidOperations == {"add", "subtract", "multiply", "divide", "power", "average", "max", "min"}
UnknownOperationMessage == "Error: Unknown operation '{operation}'"
\* cal was called with a non-empty list that float() converts
NumericListCall ==
    /\ CalCall
    /\ call.numbers # <<>>
    /\ \A i \in 1..Len(call.numbers) : IsNumber(call.numbers[i])
\* the text returned mentions the word, in its template or in a value
\* formatted into it
Mentions(word) ==
    /\ ret.py = "str"
    /\ \/ Contains(word, ret.msg)
       \/ \E i \in 1..Len(ret.args) : Contains(word, ret.args[i])

\* C15: cal called with an operation name it does not know and a non-empty
\* numeric list fails with UnknownOperation, and the failure result includes
\* the list of the valid operation names.
C15_UnknownOperationListsValidNames ==
    (NumericListCall /\ Returned /\ lower(call.operation) \notin ValidOperations) =>
        /\ ret.py = "str"
        /\ ret.msg = UnknownOperationMessage
        /\ \A name \in ValidOperations : Mentions(name)

ArityErrorMessage == "Error: Power operation requires exactly 2 numbers (base, exponent)"
PowerCall == NumericListCall /\ lower(call.operation) = "power"
\* v is base ** exponent for an integer exponent: the product of exponent
\* copies of the base, or its reciprocal
IsPowerOf(v, base, exponent) ==
    LET copies == [i \in 1..Abs(IntOf(NumAbs(exponent))) |-> base]
    IN  IF exponent[1] >= 0
        THEN v = multiply(copies)
        ELSE Mul(v, multiply(copies)) = One

\* C16: cal('power', numbers) returns numbers[0] raised to numbers[1] only
\* when exactly 2 numbers are given; with any other non-zero count it fails
\* with ArityError and computes nothing.
C16_PowerTakesExactlyTwoNumbers ==
    (PowerCall /\ Returned) =>
        /\ Len(call.numbers) # 2 => ret = Str(ArityErrorMessage, <<>>)
        /\ ret.py = "float" =>
               /\ Len(call.numbers) = 2
               /\ IsPowerOf(ret.v, call.numbers[1], call.numbers[2])

\* a power call with three numbers came back as the arity failure
C16_Witness ==
    /\ PowerCall /\ Returned
    /\ Len(call.numbers) = 3
    /\ ret = Str(ArityErrorMessage, <<>>)

AddOrMultiplyCall == NumericListCall /\ lower(call.operation) \in {"add", "multiply"}
\* the reorderings of a list
Reorderings(numbers) ==
    {[i \in 1..Len(numbers) |-> numbers[p[i]]] : p \in Permutations(1..Len(numbers))}
\* the ways to compute a list in two groups: cal on a prefix, cal on the rest,
\* then cal on the two results
Groupings(operation, numbers) ==
    {cal(operation, <<cal(operation, SubSeq(numbers, 1, k)).v,
                      cal(operation, SubSeq(numbers, k + 1, Len(numbers))).v>>) :
        k \in 1..(Len(numbers) - 1)}

\* C17: cal('add', numbers) and cal('multiply', numbers) return the same
\* result for every permutation of the list and for every grouping (the sum,
\* respectively the product, of the multiset); a list of one element returns
\* that element.
C17_AddMultiplyOrderIndependent ==
    (AddOrMultiplyCall /\ Returned) =>
        /\ \A p \in Reorderings(call.numbers) : cal(call.operation, p) = ret
        /\ \A p \in Reorderings(call.numbers) :
               \A grouped \in Groupings(call.operation, p) : grouped = ret
        /\ Len(call.numbers) = 1 => ret = Float(call.numbers[1])

\* no step of the left fold over the list overflows or absorbs a term: every
\* partial result is the exact sum, respectively product
RECURSIVE ExactFold(_, _)
ExactFold(operation, numbers) ==
    \/ Len(numbers) <= 1
    \/ LET front == SubSeq(numbers, 1, Len(numbers) - 1)
           acc == cal(operation, front).v
           x == numbers[Len(numbers)]
       IN  /\ ExactFold(operation, front)
           /\ IsFinite(acc)
           /\ IF lower(operation) = "add"
              THEN ~Absorbs(acc, x) /\ ~Absorbs(x, acc) /\ IsFinite(FAdd(acc, x))
              ELSE IsFinite(FMul(acc, x))
\* the same for every two-group computation of the list
ExactGroupings(operation, numbers) ==
    \A k \in 1..(Len(numbers) - 1) :
        /\ ExactFold(operation, SubSeq(numbers, 1, k))
        /\ ExactFold(operation, SubSeq(numbers, k + 1, Len(numbers)))
        /\ ExactFold(operation, <<cal(operation, SubSeq(numbers, 1, k)).v,
                                  cal(operation, SubSeq(numbers, k + 1, Len(numbers))).v>>)

\* C17 (amended): a list of one element returns that element, and
\* cal('add', numbers) and cal('multiply', numbers) return the same result
\* for every permutation and every grouping in which each partial sum,
\* respectively product, is computed exactly, that is without overflow to
\* infinity and without loss of a term to rounding.
C17_OrderIndependentWhenExact ==
    (AddOrMultiplyCall /\ Returned) =>
        /\ Len(call.numbers) = 1 => ret = Float(call.numbers[1])
        /\ ExactFold(call.operation, call.numbers) =>
               \A p \in Reorderings(call.numbers) :
                   /\ ExactFold(call.operation, p) => cal(call.operation, p) = ret
                   /\ ExactGroupings(call.operation, p) =>
                          \A grouped \in Groupings(call.operation, p) : grouped = ret

\* a list of three different elements was multiplied exactly, and so is one
\* of its reorderings
C17_Witness ==
    /\ AddOrMultiplyCall /\ Returned
    /\ Len(call.numbers) = 3
    /\ Cardinality(Reorderings(call.numbers)) = 6
    /\ ExactFold(call.operation, call.numbers)
    /\ \E p \in Reorderings(call.numbers) :
           p # call.numbers /\ ExactFold(call.operation, p) /\ ExactGroupings(call.operation, p)
    /\ ret.py = "float"

Separators == {" ", "-", "_"}
\* two names that differ only in letter case and in which of the separators
\* (space, hyphen, underscore) stands at a position
SameUpToCaseAndSeparator(a, b) ==
    /\ Len(a) = Len(b)
    /\ \A i \in 1..Len(a) :
           \/ CharAt(a, i) \in Separators /\ CharAt(b, i) \in Separators
           \/ LowerChar(CharAt(a, i)) = LowerChar(CharAt(b, i))
\* the explored names that are another spelling of the name looked up
OtherSpellings ==
    {other \in LookupNames :
        /\ StrTruthy(other)
        /\ other # call.constant_name
        /\ SameUpToCaseAndSeparator(other[1], call.constant_name[1])}

\* C18: a lookup by name is insensitive to letter case and to the separator
\* used: name strings that differ only in case and in the use of space,
\* hyphen or underscore return identical results, be the outcome an exact
\* match, a partial match or UnknownConstant.
C18_LookupIgnoresCaseAndSeparator ==
    (NameQuery /\ Returned) =>
        \A other \in OtherSpellings :
            physics_constants_lookup(other, call.category) = ret

\* a name spelled with capitals and hyphens was looked up and has another
\* explored spelling
C18_Witness ==
    /\ NameQuery /\ Returned
    /\ call.constant_name[1] # normalize_name(call.constant_name[1])
    /\ Contains("-", call.constant_name[1])
    /\ OtherSpellings # {}
    /\ Has("partial_matches")

\* the constants the claim expects for a name without an exact match: the
\* normalized key contains the normalized query, or the lower-cased
\* description contains the lower-cased words of the query
DescribedMatches(name) ==
    {PHYSICS_CONSTANTS[i].name :
        i \in {k \in 1..Len(PHYSICS_CONSTANTS) :
                  \/ Contains(normalize_name(name), PHYSICS_CONSTANTS[k].name)
                  \/ Contains(lower(name), lower(PHYSICS_CONSTANTS[k].description))}}
\* the keys of the partial matches returned
ReturnedMatches ==
    IF Has("partial_matches")
    THEN {ret.d.partial_matches[i].name : i \in 1..Len(ret.d.partial_matches)}
    ELSE {}

\* C19: when the normalized name is no key of the catalog, the partial
\* matches returned are exactly the constants whose key contains the query or
\* whose lower-cased description contains the query as a substring; a query
\* made of several words of a constant's description ('rest mass', 'Speed of
\* light in vacuum') matches that constant.
C19_PartialMatchesByKeyOrDescription ==
    (NameQuery /\ Returned /\ Query \notin ConstantNames) =>
        ReturnedMatches = DescribedMatches(call.constant_name[1])

\* C20: a name that matches no constant, exactly or by substring, fails with
\* UnknownConstant; the failure carries at most 10 example names, each of
\* them a key of the catalog, and a total count equal to the size of the
\* catalog, 24.
C20_UnknownConstantListsExamples ==
    (NameQuery /\ Returned /\ Query \notin ConstantNames /\ SubstringHits(Query) = {}) =>
        /\ ErrorIs("Constant '{constant_name}' not found")
        /\ Has("available_constants") /\ Has("total_available")
        /\ Len(ret.d.available_constants) <= 10
        /\ \A i \in 1..Len(ret.d.available_constants) :
               ret.d.available_constants[i] \in ConstantNames
        /\ ret.d.total_available = Cardinality(ConstantNames)
        /\ ret.d.total_available = 24

\* an unknown name came back with example names and the total
C20_Witness ==
    /\ NameQuery /\ Returned
    /\ Query \notin ConstantNames /\ SubstringHits(Query) = {}
    /\ Has("error")
    /\ Len(ret.d.available_constants) = 10

\* a lookup by category alone
CategoryQuery == LookupCall /\ ~StrTruthy(call.constant_name) /\ StrTruthy(call.category)
\* the positions in the catalog of the constants of a category
CategoryMembers(c) == {i \in 1..Len(PHYSICS_CONSTANTS) : PHYSICS_CONSTANTS[i].category = c}
ValidCategories ==
    {"fundamental", "electromagnetic", "atomic", "earth", "astronomical",
     "thermodynamic", "nuclear"}

\* C21: a lookup by category alone returns exactly the constants whose
\* category equals the lower-cased argument, with count equal to their
\* number, when there is at least one; otherwise it fails with
\* UnknownCategory and lists every valid category (fundamental,
\* electromagnetic, atomic, earth, astronomical, thermodynamic, nuclear)
\* exactly once.
C21_CategoryListsItsConstants ==
    (CategoryQuery /\ Returned) =>
        LET members == CategoryMembers(lower(call.category[1]))
        IN  IF members # {}
            THEN /\ Has("constants") /\ Has("count") /\ ~Has("error")
                 /\ Len(ret.d.constants) = Cardinality(members)
                 /\ {ret.d.constants[i] : i \in 1..Len(ret.d.constants)}
                        = {PHYSICS_CONSTANTS[i] : i \in members}
                 /\ ret.d.count = Cardinality(members)
            ELSE /\ ErrorIs("Category '{category}' not found")
                 /\ Has("available_categories")
                 /\ Len(ret.d.available_categories) = Cardinality(ValidCategories)
                 /\ {ret.d.available_categories[i] :
                        i \in 1..Len(ret.d.available_categories)} = ValidCategories

\* a category spelled with a capital came back with its constants
C21_Witness ==
    /\ CategoryQuery /\ Returned
    /\ call.category[1] # lower(call.category[1])
    /\ Has("constants")
    /\ ret.d.count > 1

\* a lookup with neither a name nor a category
OverviewQuery == LookupCall /\ ~StrTruthy(call.constant_name) /\ ~StrTruthy(call.category)
\* the places <<category, position>> of the overview at which a key is listed
OverviewPlaces(key) ==
    {place \in UNION {{<<cat, i>> : i \in 1..Len(ret.d.categories[cat])} :
                          cat \in DOMAIN ret.d.categories} :
        ret.d.categories[place[1]][place[2]].name = key}
RECURSIVE SumOver(_, _)
\* the sum of size[x] over the x in S
SumOver(S, size) ==
    IF S = {} THEN 0
    ELSE LET x == CHOOSE y \in S : TRUE IN size[x] + SumOver(S \ {x}, size)

\* C22: the lookup with neither name nor category returns an overview in
\* which every constant of the catalog appears exactly once, under its own
\* category and no other, with name, symbol and description but no value;
\* the sizes of the groups sum to total_constants, which is the size of the
\* catalog.
C22_OverviewListsEveryConstantOnce ==
    (OverviewQuery /\ Returned) =>
        /\ Has("categories") /\ Has("total_constants") /\ ~Has("error")
        /\ \A key \in ConstantNames :
               /\ Cardinality(OverviewPlaces(key)) = 1
               /\ \A place \in OverviewPlaces(key) :
                      /\ place[1] = ConstantData(key).category
                      /\ ret.d.categories[place[1]][place[2]] =
                             [name |-> key,
                              symbol |-> ConstantData(key).symbol,
                              description |-> ConstantData(key).description]
        /\ \A cat \in DOMAIN ret.d.categories :
               \A i \in 1..Len(ret.d.categories[cat]) :
                   /\ ret.d.categories[cat][i].name \in ConstantNames
                   /\ "value" \notin DOMAIN ret.d.categories[cat][i]
        /\ SumOver(DOMAIN ret.d.categories,
                   [cat \in DOMAIN ret.d.categories |-> Len(ret.d.categories[cat])])
               = ret.d.total_constants
        /\ ret.d.total_constants = Cardinality(ConstantNames)

\* the overview came back, with more than one group
C22_Witness ==
    /\ OverviewQuery /\ Returned
    /\ Has("overview")
    /\ Cardinality(DOMAIN ret.d.categories) > 1

\* wave_equation(frequency=f, wavelength=w) with f and w non-zero
WaveSpeedCall ==
    /\ Computes("wave_equation")
    /\ DOMAIN call.kwargs = {"frequency", "wavelength"}
    /\ ~IsZero(call.kwargs["frequency"]) /\ ~IsZero(call.kwargs["wavelength"])
\* the speed returned fed back: wave_equation(frequency=f, speed=speed)
WaveBack ==
    physics_calc("wave_equation",
                 [k \in {"frequency", "speed"} |->
                     IF k = "frequency" THEN call.kwargs["frequency"] ELSE ret.d.result])
\* the second call returns the wavelength of the first
WaveRoundTrip ==
    /\ Has("result")
    /\ WaveBack.py = "dict"
    /\ "result" \in DOMAIN WaveBack.d
    /\ WaveBack.d.units = "m"
    /\ WaveBack.d.result = call.kwargs["wavelength"]

\* C23: for every non-zero frequency f and non-zero wavelength w, the speed
\* returned by wave_equation(frequency=f, wavelength=w), fed back as
\* wave_equation(frequency=f, speed=speed), returns a wavelength equal to w.
C23_WaveRoundTrip ==
    (WaveSpeedCall /\ Returned) => WaveRoundTrip

\* C23 (amended): the same round trip, for every non-zero f and w whose
\* product f * w stays within the float range (it neither overflows to
\* infinity nor underflows to zero); the wavelength returned equals w up to
\* the rounding of the product and of the quotient.
C23_WaveRoundTripWithinRange ==
    (WaveSpeedCall /\ Returned) =>
        /\ Has("result")
        /\ (IsFinite(ret.d.result) /\ ~IsZero(ret.d.result)) => WaveRoundTrip

\* a speed was computed within range from a very large frequency and fed
\* back
C23_Witness ==
    /\ WaveSpeedCall /\ Returned
    /\ call.kwargs["frequency"] = Norm(1, 1, 200)
    /\ Has("result") /\ IsFinite(ret.d.result) /\ ~IsZero(ret.d.result)
    /\ WaveRoundTrip

\* C24: under any interleaving of concurrent invocations of cal, physics_calc
\* and physics_constants_lookup, every invocation returns the result it
\* returns when run alone with the same arguments (no invocation sees what
\* another one reads or writes), and the constants and law tables a call
\* works with hold the same entries from its entry to its return.
C24_ConcurrentCallsIndependent ==
    /\ \A t \in DOMAIN threads :
           threads[t].pc = "done" => threads[t].ret = Alone(threads[t].inv)
    /\ \A t \in DOMAIN threads :
           threads[t].pc \in {"body", "done"} =>
               /\ threads[t].inv.tool = "physics_constants_lookup" =>
                      frames[FrameOf(t)].constants = PHYSICS_CONSTANTS
               /\ threads[t].inv.tool = "physics_calc" =>
                      frames[FrameOf(t)].laws = PHYSICS_LAWS

\* a multiply returned its product while another multiply was in the middle
\* of its loop
C24_Witness ==
    \E t \in DOMAIN threads : \E u \in DOMAIN threads :
        /\ t # u
        /\ threads[t].pc = "done"
        /\ threads[t].inv.tool = "cal" /\ threads[t].inv.operation = "multiply"
        /\ threads[t].ret = Float(IntNum(6))
        /\ threads[u].pc = "body"
        /\ threads[u].inv.tool = "cal" /\ threads[u].inv.operation = "multiply"
        /\ frames[FrameOf(u)].i = 2

\* a chat request is in progress or has been answered
ChatStarted == chat.pc \notin {"idle"}
EmptyMessage == \A i \in 1..Len(chat.message) : CharAt(chat.message, i) \in Whitespace

\* C25: a chat request whose message is empty or only whitespace is
\* rejected with 400 Bad Request before anything else happens: no session is
\* looked up or created and the agent is not run.
C25_EmptyMessageRejectedFirst ==
    (ChatStarted /\ EmptyMessage) =>
        /\ chat.pc \in {"validate", "done"}
        /\ chat.pc = "done" => chat.status = 400
        /\ ~chat.looked_up /\ chat.created = 0 /\ ~chat.ran
        /\ sessions = chat.before

\* a whitespace message was answered with 400 while a session exists
C25_Witness ==
    /\ ChatStarted /\ chat.pc = "done"
    /\ chat.message = " \t\n"
    /\ chat.status = 400
    /\ chat.session_id # NoneVal /\ chat.session_id[1] \in sessions.ids

\* a chat request was answered successfully
ChatSucceeded == chat.pc = "done" /\ chat.status = 200
NamesExistingSession ==
    chat.session_id # NoneVal /\ chat.session_id[1] \in chat.before.ids

\* C26: for every chat that succeeds, the session_id returned identifies an
\* existing session, the one the agent ran in.  When the request names an
\* existing session that same id is returned and no session is created; when
\* the id is absent or names no existing session exactly one session is
\* created and its id returned.
C26_ReturnedSessionIsTheOneUsed ==
    ChatSucceeded =>
        /\ chat.out # NoneVal /\ chat.out[1] \in sessions.ids
        /\ chat.out = chat.session /\ chat.ran
        /\ IF NamesExistingSession
           THEN /\ chat.out = chat.session_id
                /\ chat.created = 0
                /\ sessions.ids = chat.before.ids
                /\ sessions.runs[chat.out[1]] = chat.before.runs[chat.out[1]] + 1
           ELSE /\ chat.created = 1
                /\ chat.out[1] \notin chat.before.ids
                /\ sessions.ids = chat.before.ids \cup {chat.out[1]}
                /\ sessions.runs[chat.out[1]] = 1
        /\ \A id \in chat.before.ids \ {chat.out[1]} :
               sessions.runs[id] = chat.before.runs[id]

\* a returned id was sent back and the chat continued in that session
C26_Witness ==
    /\ ChatSucceeded /\ NamesExistingSession
    /\ chat.out = chat.session_id
    /\ sessions.runs[chat.out[1]] = 2
    /\ Cardinality(sessions.ids) = 1

SnellAllSupplied ==
    Supplied("n1", "index1") /\ Supplied("n2", "index2") /\ Supplied("theta1", "angle1")

\* C27: snells_law called with n1, n2 and theta1 all supplied, whatever
\* their numeric values (normal incidence theta1 = 0 included), returns the
\* refracted angle or fails with TotalInternalReflection; the
\* missing-parameter failure is returned only when one of the three was not
\* supplied.
C27_SnellAcceptsZeroArguments ==
    (Computes("snells_law") /\ Returned) =>
        /\ SnellAllSupplied => (Has("result") \/ ErrorIs(TotalInternalReflection))
        /\ ErrorIs(MissingSnell) => ~SnellAllSupplied

\* the outcome is the UnknownLaw failure
IsUnknownLaw(outcome) ==
    /\ outcome.py = "dict"
    /\ "error" \in DOMAIN outcome.d
    /\ outcome.d.error.fmt = UnknownLawMessage
\* what the call's law name gets in info mode and in compute mode
InInfoMode == info_branch(normalize_name(call.law))
InComputeMode == except_handler(compute_branch(normalize_name(call.law), call.kwargs))

\* C28: the set of law names physics_calc accepts is the same in every
\* mode: a name gets metadata in info mode exactly when compute mode
\* dispatches it, and both hold exactly for the names of the registered law
\* table; no name is computed in one mode and rejected in the other.
C28_SameLawNamesInEveryMode ==
    (CalcCall /\ Returned) =>
        /\ ~IsUnknownLaw(InInfoMode) <=> ~IsUnknownLaw(InComputeMode)
        /\ ~IsUnknownLaw(InInfoMode) <=> normalize_name(call.law) \in LawNames
        /\ ~IsUnknownLaw(InComputeMode) <=> normalize_name(call.law) \in LawNames
        /\ ret = IF InfoMode(call.kwargs) THEN InInfoMode ELSE InComputeMode

\* the last call was _set_initial_states; it was the first one, or a later one
InitialisationCalled == log.calls > 0 /\ log.last.op = "_set_initial_states"
FirstInitialisation == InitialisationCalled /\ log.inits = 1
LaterInitialisation == InitialisationCalled /\ log.inits >= 2

\* C29: over any sequence of _set_initial_states calls on one session
\* state, interleaved with memorize, memorize_list and forget, only the first
\* call merges the source into the state; every later call leaves the whole
\* state as it found it, so a value stored after initialisation under a key
\* of the source is not overwritten and the _time stamp stays.
C29_OnlyFirstInitialisationMerges ==
    /\ LaterInitialisation => (state = log.last.before /\ ~log.last.raised)
    /\ (FirstInitialisation /\ ~already_initialized(log.last.before)) =>
           \A k \in DOMAIN log.last.source : state[k] = log.last.source[k]
    /\ log.inits >= 1 => {SYSTEM_TIME, SESSION_INITIALIZED} \subseteq DOMAIN state

\* a value memorized under a key of the profile after the first call is
\* still there after a second call with that profile, and so is the stamp
C29_Witness ==
    /\ LaterInitialisation
    /\ "level" \in DOMAIN log.last.source
    /\ log.last.source["level"] = StrValue("a")
    /\ "level" \in DOMAIN state
    /\ state["level"] = StrValue("b")
    /\ state[SYSTEM_TIME] = StrValue("time-0")

NoDuplicates(l) == \A i, j \in 1..Len(l) : l[i] = l[j] => i = j
\* the last call was memorize_list or forget on the key, which holds a list
AfterListCall(key) ==
    /\ log.calls > 0
    /\ log.last.op \in ListOps /\ log.last.key = key
    /\ HoldsList(state, key)
\* the list the last call found under the key
ListBefore(key) == IF HoldsList(log.last.before, key) THEN log.last.before[key].v ELSE <<>>
\* the most recent call of memorize_list or forget naming the value, if any
LastNaming(key, value) ==
    IF value \in DOMAIN log.named[key] THEN log.named[key][value] ELSE "none"
\* memorize_list of a value present and forget of a value absent change nothing
RepeatedCallChangesNothing(key) ==
    /\ (log.last.op = "memorize_list" /\ log.last.value \in Elements(ListBefore(key)))
           => state[key].v = ListBefore(key)
    /\ (log.last.op = "forget" /\ log.last.value \notin Elements(ListBefore(key)))
           => state[key].v = ListBefore(key)

\* C30: after any sequence of memorize_list and forget calls on a key that
\* holds a list, the list holds no value twice and holds a value exactly when
\* the most recent call naming it was memorize_list; memorize_list of a value
\* already present and forget of a value not present leave the list unchanged.
C30_ListHoldsWhatWasLastMemorized ==
    \A key \in MemoryKeys :
        AfterListCall(key) =>
            /\ NoDuplicates(state[key].v)
            /\ \A v \in Elements(state[key].v) \cup MemoryValues :
                   v \in Elements(state[key].v) <=> LastNaming(key, v) = "memorize_list"
            /\ RepeatedCallChangesNothing(key)

\* C30 (amended): memorize_list of a value already present and forget of a
\* value not present leave the list unchanged; memorize_list of an absent
\* value appends it once and forget of a present value removes its first
\* occurrence.  So when the list held no value twice when these calls began,
\* as a list created by memorize_list does, it never holds a value twice, a
\* value some call named is in it exactly when the most recent call naming
\* it was memorize_list, and a value no call named is in it exactly when it
\* was there at the beginning.
C30_ListFollowsCallsFromItsStart ==
    \A key \in MemoryKeys :
        AfterListCall(key) =>
            /\ RepeatedCallChangesNothing(key)
            /\ (log.last.op = "memorize_list" /\ log.last.value \notin Elements(ListBefore(key)))
                   => state[key].v = Append(ListBefore(key), log.last.value)
            /\ (log.last.op = "forget" /\ log.last.value \in Elements(ListBefore(key)))
                   => state[key].v = remove(ListBefore(key), log.last.value)
            /\ NoDuplicates(log.base[key]) =>
                   /\ NoDuplicates(state[key].v)
                   /\ \A v \in Elements(state[key].v) \cup Elements(log.base[key]) \cup MemoryValues :
                          v \in Elements(state[key].v) <=>
                              IF LastNaming(key, v) = "none" THEN v \in Elements(log.base[key])
                              ELSE LastNaming(key, v) = "memorize_list"

\* a list merged from the profile as ["b"]: "a" was memorized, then
\* forgotten, "b" was memorized again; the list is ["b"] as at the beginning
C30_Witness ==
    /\ AfterListCall("topics")
    /\ log.base["topics"] = <<"b">>
    /\ LastNaming("topics", "a") = "forget"
    /\ LastNaming("topics", "b") = "memorize_list"
    /\ state["topics"].v = <<"b">>

====
